---- MODULE Spec2Model ----
(***************************************************************************)
(* Model of the defect-analysis dashboard (okawar/courseISIS).             *)
(*                                                                         *)
(* The repository holds two revisions of pages/Dashboard.jsx in one file   *)
(* (lines 1-1347 and 1349-2734).  The variable `def` says which code is    *)
(* running: 1 for the first revision, 2 for the second, 3 for the web      *)
(* worker pages/worker.js, 4 for components/AutoSave.jsx, 5 for the        *)
(* earlier Dashboard of unnamed/part_005 and 6 for the earlier             *)
(* FileUploader of unnamed/part_002.                                       *)
(*                                                                         *)
(* Seven specifications share the variables:                               *)
(*   Spec        the Dashboard (first revision) with its FileUploader,     *)
(*               DataTable and ResultSummary: file loads, table edits,     *)
(*               the outlier toggle, the snackbar, the significance        *)
(*               level field, and the two effects;                         *)
(*   SpecFit     the fitting pipeline of both revisions, from the four     *)
(*               frequency vectors to the selected distribution;           *)
(*   SpecWorker  the same stretch of pages/worker.js, up to the three      *)
(*               chi-square results;                                       *)
(*   SpecMessage pages/worker.js handling one request, from the records    *)
(*               to the messages it posts;                                 *)
(*   SpecFilter  the outlier filters of the Dashboard, of the worker and   *)
(*               of the earlier Dashboard as functions of the defects;     *)
(*   SpecAutoSave the AutoSave component: its effect and its interval;     *)
(*   SpecHistory the writers of the testHistory list in localStorage.      *)
(*                                                                         *)
(* Number representation.  Observed frequencies are integers.  Expected    *)
(* frequencies are real in the program (PMF times sample size); the model  *)
(* keeps them rounded down to whole numbers.  The chi-square statistic is  *)
(* kept in thousandths.  Probabilities (p-values, significance levels) are *)
(* kept in thousandths as well, and a p-value is rounded down to the       *)
(* nearest tabulated probability level of the chi-square table, so that    *)
(* pValue >= alpha is exact for every tabulated alpha.  Two p-values are   *)
(* equal in the model when the table does not separate them, as two        *)
(* p-values are equal in the program when a double does not.               *)
(***************************************************************************)
EXTENDS Integers, Sequences, FiniteSets, TLC

VARIABLES
    def,              \* which code runs, see above
    data,             \* Dashboard state `data`: sequence of [total, defects]
    includeOutliers,  \* Dashboard state `includeOutliers`
    error,            \* Dashboard state `error`: "null" or the message
    analysis,         \* Dashboard state `analysis`
    dirty,            \* a dependency of the analysis effect changed since it last ran
    run,              \* trace of the last pipeline run (inputs, bins, results)
    filtered,         \* filteredDefects of the last analysis run that got that far
    lastValid,        \* the analysis result of the last run that succeeded
    steps,            \* number of user events handled so far
    fileError,        \* FileUploader state `error`: "null" or the message
    summaryDirty,     \* a dependency of the ResultSummary effect changed since it last ran
    trigger,          \* the dependency whose change scheduled the analysis effect
    posted            \* the messages the worker has posted, oldest first

vars == <<def, data, includeOutliers, error, analysis, dirty, run, filtered,
          lastValid, steps, fileError, summaryDirty, trigger, posted>>

-----------------------------------------------------------------------------
(* Program constants                                                       *)

MIN_EXPECTED_FREQ == 5
MIN_BINS == 3
\* DEFAULT_SIGNIFICANCE_LEVEL = 0.05, in thousandths
DEFAULT_SIGNIFICANCE_LEVEL == 50
\* JavaScript Infinity: larger than every number of the model
Infinity == 1000000000

DistNames == <<"Poisson", "Binomial", "NegativeBinomial">>

\* numParams passed to computeChiSquare for each distribution
NumParams(name) == IF name = "Poisson" THEN 1 ELSE 2

-----------------------------------------------------------------------------
(* Bounds of the model                                                     *)

\* largest number of support values (maxDefects + 1) drawn for the fitting
\* pipeline when it is checked as a function of its inputs
MaxSupport == 5

\* number of user events (file loads, table edits, toggles) in a behaviour
MaxSteps == 3

\* the table rows 1..MaxEditRow are the ones the user edits
MaxEditRow == 2

\* longest sequence of defects drawn for the outlier filters when they are
\* checked as functions of their input
MaxFilterLen == 5

\* number of interval ticks and prop changes of the AutoSave component in a
\* behaviour
MaxSaves == 4

\* number of history writes and clears in a behaviour
MaxHistorySteps == 3

-----------------------------------------------------------------------------
(* Arithmetic helpers                                                      *)

Max(a, b) == IF a >= b THEN a ELSE b
Min(a, b) == IF a <= b THEN a ELSE b

\* Math.ceil(a / b) for a >= 0, b > 0
CeilDiv(a, b) == (a + b - 1) \div b

RECURSIVE SumSeq(_)
SumSeq(s) == IF s = <<>> THEN 0 ELSE Head(s) + SumSeq(Tail(s))

\* freqs[i] || 0 for a 0-based index i into a JavaScript array
Cell(freqs, i) == IF (i + 1) \in DOMAIN freqs THEN freqs[i + 1] ELSE 0

-----------------------------------------------------------------------------
(* AdaptiveBinner: createOptimalBins / createBinnedFrequencies             *)

\* mutant: the bin is closed as soon as one distribution's expected sum
\* reaches the minimum
RECURSIVE GrowBinAny(_, _, _, _, _, _, _, _)
GrowBinAny(poissonFreqs, binomialFreqs, negBinomialFreqs, maxIndex, currentEnd, sumPoisson, sumBinomial, sumNegBinomial) ==
    IF currentEnd < maxIndex
       /\ ~(sumPoisson >= MIN_EXPECTED_FREQ
            \/ sumBinomial >= MIN_EXPECTED_FREQ
            \/ sumNegBinomial >= MIN_EXPECTED_FREQ)
    THEN GrowBinAny(poissonFreqs, binomialFreqs, negBinomialFreqs, maxIndex,
                    currentEnd + 1,
                    sumPoisson + Cell(poissonFreqs, currentEnd + 1),
                    sumBinomial + Cell(binomialFreqs, currentEnd + 1),
                    sumNegBinomial + Cell(negBinomialFreqs, currentEnd + 1))
    ELSE currentEnd

\* The inner while loop of the greedy pass: extend the bin while the support
\* is not exhausted and some distribution's expected sum is below the minimum.
RECURSIVE GrowBin(_, _, _, _, _, _, _, _)
GrowBin(poissonFreqs, binomialFreqs, negBinomialFreqs, maxIndex, currentEnd, sumPoisson, sumBinomial, sumNegBinomial) ==
    IF currentEnd < maxIndex
       /\ ~(sumPoisson >= MIN_EXPECTED_FREQ
            /\ sumBinomial >= MIN_EXPECTED_FREQ
            /\ sumNegBinomial >= MIN_EXPECTED_FREQ)
    THEN GrowBin(poissonFreqs, binomialFreqs, negBinomialFreqs, maxIndex,
                 currentEnd + 1,
                 sumPoisson + Cell(poissonFreqs, currentEnd + 1),
                 sumBinomial + Cell(binomialFreqs, currentEnd + 1),
                 sumNegBinomial + Cell(negBinomialFreqs, currentEnd + 1))
    ELSE currentEnd

\* The outer while loop of the greedy pass, from currentStart on.
RECURSIVE GreedyBins(_, _, _, _, _)
GreedyBins(poissonFreqs, binomialFreqs, negBinomialFreqs, maxIndex, currentStart) ==
    IF currentStart > maxIndex
    THEN <<>>
    ELSE LET currentEnd ==
                 GrowBin(poissonFreqs, binomialFreqs, negBinomialFreqs, maxIndex,
                         currentStart,
                         Cell(poissonFreqs, currentStart),
                         Cell(binomialFreqs, currentStart),
                         Cell(negBinomialFreqs, currentStart))
         IN  <<<<currentStart, currentEnd>>>>
                 \o GreedyBins(poissonFreqs, binomialFreqs, negBinomialFreqs,
                               maxIndex, currentEnd + 1)

\* for (let i = 0; i <= maxIndex; i += step) forcedBins.push([i, min(i+step-1, maxIndex)])
RECURSIVE ForcedLoop(_, _, _)
ForcedLoop(i, step, maxIndex) ==
    IF i > maxIndex
    THEN <<>>
    ELSE <<<<i, Min(i + step - 1, maxIndex)>>>> \o ForcedLoop(i + step, step, maxIndex)

\* mutant: the forced loop starts at index 1 instead of 0
ForcedBinsFromOne(maxIndex) ==
    ForcedLoop(1, CeilDiv(maxIndex + 1, MIN_BINS), maxIndex)

ForcedBins(maxIndex) ==
    ForcedLoop(0, CeilDiv(maxIndex + 1, MIN_BINS), maxIndex)

\* The bins createOptimalBins hands to createBinnedFrequencies.
OptimalBins(empiricalFreqs, poissonFreqs, binomialFreqs, negBinomialFreqs) ==
    LET maxIndex == Len(empiricalFreqs) - 1
        bins == GreedyBins(poissonFreqs, binomialFreqs, negBinomialFreqs, maxIndex, 0)
    IN  IF Len(bins) < MIN_BINS THEN ForcedBins(maxIndex) ELSE bins

\* let sum = 0; for (i = start; i <= end; i++) sum += freqs[i] || 0
RECURSIVE BinSum(_, _, _)
BinSum(freqs, start, end) ==
    IF start > end THEN 0 ELSE Cell(freqs, start) + BinSum(freqs, start + 1, end)

\* mutant: the last support value of every bin is left out
BinnedExclusive(bins, freqs) ==
    [k \in 1..Len(bins) |-> BinSum(freqs, bins[k][1], bins[k][2] - 1)]

Binned(bins, freqs) ==
    [k \in 1..Len(bins) |-> BinSum(freqs, bins[k][1], bins[k][2])]

createBinnedFrequencies(bins, empiricalFreqs, poissonFreqs, binomialFreqs, negBinomialFreqs) ==
    [bins |-> bins,
     binnedEmpirical |-> Binned(bins, empiricalFreqs),
     binnedPoisson |-> Binned(bins, poissonFreqs),
     binnedBinomial |-> Binned(bins, binomialFreqs),
     binnedNegBinomial |-> Binned(bins, negBinomialFreqs)]

createOptimalBins(empiricalFreqs, poissonFreqs, binomialFreqs, negBinomialFreqs) ==
    createBinnedFrequencies(
        OptimalBins(empiricalFreqs, poissonFreqs, binomialFreqs, negBinomialFreqs),
        empiricalFreqs, poissonFreqs, binomialFreqs, negBinomialFreqs)

-----------------------------------------------------------------------------
(* Chi-square distribution (jStat.chisquare), from the standard table      *)

\* upper-tail probability levels of the table, in thousandths, descending
PLevels == <<990, 950, 900, 750, 500, 250, 100, 50, 25, 10, 5, 1>>

\* critical values in thousandths: CritTable[df][k] is the value x with
\* P(X > x) = PLevels[k] for X chi-square with df degrees of freedom
CritTable ==
    << <<0, 4, 16, 102, 455, 1323, 2706, 3841, 5024, 6635, 7879, 10828>>,
       <<20, 103, 211, 575, 1386, 2773, 4605, 5991, 7378, 9210, 10597, 13816>>,
       <<115, 352, 584, 1213, 2366, 4108, 6251, 7815, 9348, 11345, 12838, 16266>>,
       <<297, 711, 1064, 1923, 3357, 5385, 7779, 9488, 11143, 13277, 14860, 18467>>,
       <<554, 1145, 1610, 2675, 4351, 6626, 9236, 11070, 12833, 15086, 16750, 20515>>,
       <<872, 1635, 2204, 3455, 5348, 7841, 10645, 12592, 14449, 16812, 18548, 22458>>,
       <<1239, 2167, 2833, 4255, 6346, 9037, 12017, 14067, 16013, 18475, 20278, 24322>>,
       <<1646, 2733, 3490, 5071, 7344, 10219, 13362, 15507, 17535, 20090, 21955, 26124>>,
       <<2088, 3325, 4168, 5899, 8343, 11389, 14684, 16919, 19023, 21666, 23589, 27877>> >>

LevelIndex(level) == CHOOSE k \in DOMAIN PLevels : PLevels[k] = level

\* jStat.chisquare.inv(1 - significanceLevel, df), in thousandths
ChiSquareInv(significanceLevel, df) == CritTable[df][LevelIndex(significanceLevel)]

\* 1 - jStat.chisquare.cdf(chi2, df), in thousandths, rounded down to a level
ChiSquareSurvival(chi2, df) ==
    IF chi2 <= 0 THEN 1000
    ELSE LET above == {k \in DOMAIN PLevels : chi2 <= CritTable[df][k]}
         IN  IF above = {} THEN 0
             ELSE PLevels[CHOOSE k \in above : \A j \in above : k <= j]

-----------------------------------------------------------------------------
(* ChiSquareEvaluator: computeChiSquare (both revisions), computeChi2      *)

\* Math.pow(o - e, 2) / e, in thousandths
Contribution(o, e) == ((o - e) * (o - e) * 1000) \div e

\* chi2 += contribution over the bins the loop accepted, in index order
RECURSIVE ChiSum(_, _, _, _)
ChiSum(observed, expected, valid, i) ==
    IF i > Len(observed) THEN 0
    ELSE (IF i \in valid THEN Contribution(observed[i], expected[i]) ELSE 0)
         + ChiSum(observed, expected, valid, i + 1)

\* first revision, Dashboard.jsx:670
\* Number.isFinite(e) && e >= MIN_EXPECTED_FREQ && Number.isFinite(o) && o >= 0
ValidBins1(observed, expected) ==
    {i \in 1..Len(observed) :
        /\ expected[i] # Infinity /\ expected[i] >= MIN_EXPECTED_FREQ
        /\ observed[i] # Infinity /\ observed[i] >= 0}

\* second revision, Dashboard.jsx:2026: if (exp < MIN_EXPECTED_FREQ) continue
ValidBins2(observed, expected) ==
    {i \in 1..Len(observed) : ~(expected[i] < MIN_EXPECTED_FREQ)}

\* worker.js:206 and part_005:314: if (e >= 5 && o > 0)
ValidBinsWorker(observed, expected) ==
    {i \in 1..Len(observed) : expected[i] >= 5 /\ observed[i] > 0}

\* mutant: degrees of freedom taken as validBins - 2 - numParams
computeChiSquare1OffByOne(observed, expected, distName, numParams) ==
    LET valid == ValidBins1(observed, expected)
        validBins == Cardinality(valid)
    IN  IF validBins < numParams + 2
        THEN [chi2 |-> Infinity, validBins |-> 0, df |-> 0, counted |-> valid]
        ELSE [chi2 |-> ChiSum(observed, expected, valid, 1),
              validBins |-> validBins,
              df |-> Max(validBins - 2 - numParams, 1),
              counted |-> valid]

\* computeChiSquare of the first revision
computeChiSquare1(observed, expected, distName, numParams) ==
    IF Len(observed) # Len(expected)
    THEN [chi2 |-> Infinity, validBins |-> 0, df |-> 0, counted |-> {}]
    ELSE LET valid == ValidBins1(observed, expected)
             validBins == Cardinality(valid)
             chi2 == ChiSum(observed, expected, valid, 1)
             minValidBins == numParams + 2
         IN  IF validBins < minValidBins
             THEN [chi2 |-> Infinity, validBins |-> 0, df |-> 0, counted |-> valid]
             ELSE [chi2 |-> IF chi2 # Infinity /\ chi2 >= 0 THEN chi2 ELSE Infinity,
                   validBins |-> validBins,
                   df |-> Max(validBins - 1 - numParams, 1),
                   counted |-> valid]

\* computeChiSquare of the second revision; the numParams fallback by name is
\* taken when numParams is not a positive number
computeChiSquare2(observed, expected, distName, numParams) ==
    LET valid == ValidBins2(observed, expected)
        validBins == Cardinality(valid)
        finalNumParams ==
            IF numParams > 0 THEN numParams
            ELSE IF distName = "Poisson" THEN 1
            ELSE IF distName \in {"Binomial", "NegativeBinomial"} THEN 2
            ELSE 1
    IN  [chi2 |-> ChiSum(observed, expected, valid, 1),
         validBins |-> validBins,
         df |-> Max(1, validBins - 1 - finalNumParams),
         counted |-> valid]

\* computeChi2 of worker.js and part_005
computeChi2(observed, expected, distName, numParams) ==
    LET valid == ValidBinsWorker(observed, expected)
        validBins == Cardinality(valid)
    IN  [chi2 |-> ChiSum(observed, expected, valid, 1),
         validBins |-> validBins,
         df |-> Max(validBins - 1 - numParams, 1),
         counted |-> valid]

computeChiSquare(d, observed, expected, distName, numParams) ==
    IF d = 1 THEN computeChiSquare1(observed, expected, distName, numParams)
    ELSE computeChiSquare2(observed, expected, distName, numParams)

-----------------------------------------------------------------------------
(* DistributionSelector: analyzeDistributions (both revisions)             *)

\* `best` when there is nothing to select from (null in the program)
Null == [name |-> "null"]

\* the entry pushed to results for one distribution
ResultEntry(name, chi, significanceLevel) ==
    LET criticalValue == ChiSquareInv(significanceLevel, chi.df)
        pValue == Max(0, Min(1000, ChiSquareSurvival(chi.chi2, chi.df)))
    IN  [name |-> name,
         chi2 |-> chi.chi2,
         df |-> chi.df,
         validBins |-> chi.validBins,
         critical |-> criticalValue,
         pValue |-> pValue,
         numParams |-> NumParams(name),
         isAccepted |-> pValue >= significanceLevel]

\* first revision: if (result.df > 0 && Number.isFinite(result.chi2)) results.push
Evaluated1(chi) == chi.df > 0 /\ chi.chi2 # Infinity

\* second revision: if (!isFinite(chi2Value) || !isFinite(df) || df <= 0) return
Evaluated2(chi) == ~(chi.chi2 = Infinity \/ chi.df = Infinity \/ chi.df <= 0)

Evaluated(d, chi) == IF d = 1 THEN Evaluated1(chi) ELSE Evaluated2(chi)

\* the results list, in the fixed order Poisson, Binomial, NegativeBinomial
RECURSIVE ResultsFrom(_, _, _, _)
ResultsFrom(d, chi, significanceLevel, k) ==
    IF k > Len(DistNames) THEN <<>>
    ELSE (IF Evaluated(d, chi[DistNames[k]])
          THEN <<ResultEntry(DistNames[k], chi[DistNames[k]], significanceLevel)>>
          ELSE <<>>)
         \o ResultsFrom(d, chi, significanceLevel, k + 1)

IsAccepted(r) == r.isAccepted

\* mutant: the smaller chi2 wins even over an accepted prev
Better1Unguarded(prev, curr) ==
    IF (curr.isAccepted /\ curr.pValue > prev.pValue)
       \/ curr.chi2 < prev.chi2
    THEN curr ELSE prev

\* first revision, the callback of results.reduce
Better1(prev, curr) ==
    IF (curr.isAccepted /\ curr.pValue > prev.pValue)
       \/ (~prev.isAccepted /\ curr.chi2 < prev.chi2)
    THEN curr ELSE prev

\* second revision, the callback of both reduce calls
Better2(best, current) ==
    IF current.pValue > best.pValue THEN current ELSE best

\* Array.prototype.reduce without an initial value, on a non-empty list
RECURSIVE Reduce(_, _, _, _)
Reduce(d, list, i, acc) ==
    IF i > Len(list) THEN acc
    ELSE Reduce(d, list, i + 1,
                IF d = 1 THEN Better1(acc, list[i]) ELSE Better2(acc, list[i]))

\* first revision: results.length > 0 ? results.reduce(...) : null
Best1(results) ==
    IF Len(results) > 0 THEN Reduce(1, results, 2, results[1]) ELSE Null

\* second revision: reduce over the accepted ones if there are any, else over
\* all; reduce of an empty array with no initial value throws a TypeError
Best2(results) ==
    LET acceptedDistributions == SelectSeq(results, IsAccepted)
    IN  IF Len(acceptedDistributions) > 0
        THEN Reduce(2, acceptedDistributions, 2, acceptedDistributions[1])
        ELSE IF Len(results) > 0 THEN Reduce(2, results, 2, results[1])
        ELSE [name |-> "TypeError"]

\* analyzeDistributions: chi-square for the three distributions, the results
\* list, the accepted ones and the best one
analyzeDistributions(d, binnedEmpirical, binnedPoisson, binnedBinomial, binnedNegBinomial, significanceLevel) ==
    LET chi == [name \in {"Poisson", "Binomial", "NegativeBinomial"} |->
                   computeChiSquare(d, binnedEmpirical,
                       IF name = "Poisson" THEN binnedPoisson
                       ELSE IF name = "Binomial" THEN binnedBinomial
                       ELSE binnedNegBinomial,
                       name, NumParams(name))]
        results == ResultsFrom(d, chi, significanceLevel, 1)
    IN  [chi |-> chi,
         results |-> results,
         accepted |-> SelectSeq(results, IsAccepted),
         best |-> IF d = 1 THEN Best1(results) ELSE Best2(results)]

-----------------------------------------------------------------------------
(* Bin labels                                                              *)

\* first revision: start === end ? `${start}` : `${start}-${end}`
BinLabel1(bin) ==
    IF bin[1] = bin[2] THEN ToString(bin[1])
    ELSE ToString(bin[1]) \o "-" \o ToString(bin[2])

\* second revision: bin.length === 1 ? bin[0].toString()
\*                                   : `${bin[0]}-${bin[bin.length - 1]}`
BinLabel2(bin) ==
    IF Len(bin) = 1 THEN ToString(bin[1])
    ELSE ToString(bin[1]) \o "-" \o ToString(bin[Len(bin)])

BinLabels(d, bins) ==
    [k \in 1..Len(bins) |-> IF d = 1 THEN BinLabel1(bins[k]) ELSE BinLabel2(bins[k])]

-----------------------------------------------------------------------------
(* One run of the fitting pipeline from the frequency vectors on           *)

PipelineRun(d, empiricalFreqs, poissonFreqs, binomialFreqs, negBinomialFreqs, significanceLevel) ==
    LET b == createOptimalBins(empiricalFreqs, poissonFreqs, binomialFreqs,
                               negBinomialFreqs)
        greedy == GreedyBins(poissonFreqs, binomialFreqs, negBinomialFreqs,
                             Len(empiricalFreqs) - 1, 0)
        a == analyzeDistributions(d, b.binnedEmpirical, b.binnedPoisson,
                                  b.binnedBinomial, b.binnedNegBinomial,
                                  significanceLevel)
    IN  [stage |-> "done",
         empirical |-> empiricalFreqs,
         poisson |-> poissonFreqs,
         binomial |-> binomialFreqs,
         negBinomial |-> negBinomialFreqs,
         significanceLevel |-> significanceLevel,
         greedyCount |-> Len(greedy),
         bins |-> b.bins,
         binLabels |-> BinLabels(d, b.bins),
         binnedEmpirical |-> b.binnedEmpirical,
         binned |-> [name \in {"Poisson", "Binomial", "NegativeBinomial"} |->
                        IF name = "Poisson" THEN b.binnedPoisson
                        ELSE IF name = "Binomial" THEN b.binnedBinomial
                        ELSE b.binnedNegBinomial],
         chi |-> a.chi,
         results |-> a.results,
         accepted |-> a.accepted,
         best |-> a.best]

-----------------------------------------------------------------------------
(* worker.js: the analysis as the web worker computes it                   *)

\* worker.js:76: if (data.length < 30) throw
MIN_RECORDS == 30

\* Math.ceil(1 + Math.log2(totalCount)) for totalCount >= 1: the least k
\* with 2^(k-1) >= totalCount
SturgesK(totalCount) ==
    CHOOSE k \in 1..(totalCount + 1) :
        /\ 2 ^ (k - 1) >= totalCount
        /\ \A j \in 1..(k - 1) : 2 ^ (j - 1) < totalCount

\* the test of addBin: some distribution's expected sum over [start, end]
\* reaches 5
AddBinCloses(poissonFreqs, binomialFreqs, negBinomialFreqs, start, end) ==
    \/ BinSum(poissonFreqs, start, end) >= 5
    \/ BinSum(binomialFreqs, start, end) >= 5
    \/ BinSum(negBinomialFreqs, start, end) >= 5

\* the for loop of the worker's createOptimalBins from index i on; start is
\* currentBin[0]
RECURSIVE WorkerBinLoop(_, _, _, _, _, _, _, _)
WorkerBinLoop(poissonFreqs, binomialFreqs, negBinomialFreqs, length, sturgesK, i, start, bins) ==
    IF i > length - 1 THEN bins
    ELSE IF Len(bins) < sturgesK - 1 /\ i < length - 1
    THEN IF AddBinCloses(poissonFreqs, binomialFreqs, negBinomialFreqs, start, i)
         THEN WorkerBinLoop(poissonFreqs, binomialFreqs, negBinomialFreqs, length,
                            sturgesK, i + 1, i + 1, Append(bins, <<start, i>>))
         ELSE WorkerBinLoop(poissonFreqs, binomialFreqs, negBinomialFreqs, length,
                            sturgesK, i + 1, start, bins)
    ELSE IF start <= length - 1
            /\ AddBinCloses(poissonFreqs, binomialFreqs, negBinomialFreqs,
                            start, length - 1)
         THEN Append(bins, <<start, length - 1>>)
         ELSE bins

\* createOptimalBins of worker.js
WorkerOptimalBins(empiricalFreqs, poissonFreqs, binomialFreqs, negBinomialFreqs) ==
    LET totalCount == SumSeq(empiricalFreqs)
        sturgesK == SturgesK(totalCount)
        bins == WorkerBinLoop(poissonFreqs, binomialFreqs, negBinomialFreqs,
                              Len(empiricalFreqs), sturgesK, 1, 0, <<>>)
    IN  createBinnedFrequencies(
            IF Len(bins) < 2 THEN <<<<0, Len(empiricalFreqs) - 1>>>> ELSE bins,
            empiricalFreqs, poissonFreqs, binomialFreqs, negBinomialFreqs)

\* the worker from the frequency vectors up to the three chi-square results
WorkerRun(empiricalFreqs, poissonFreqs, binomialFreqs, negBinomialFreqs, significanceLevel) ==
    LET b == WorkerOptimalBins(empiricalFreqs, poissonFreqs, binomialFreqs,
                               negBinomialFreqs)
        binned == [name \in {"Poisson", "Binomial", "NegativeBinomial"} |->
                      IF name = "Poisson" THEN b.binnedPoisson
                      ELSE IF name = "Binomial" THEN b.binnedBinomial
                      ELSE b.binnedNegBinomial]
    IN  [stage |-> "done",
         empirical |-> empiricalFreqs,
         poisson |-> poissonFreqs,
         binomial |-> binomialFreqs,
         negBinomial |-> negBinomialFreqs,
         significanceLevel |-> significanceLevel,
         bins |-> b.bins,
         binLabels |-> BinLabels(1, b.bins),
         binnedEmpirical |-> b.binnedEmpirical,
         binned |-> binned,
         chi |-> [name \in {"Poisson", "Binomial", "NegativeBinomial"} |->
                     computeChi2(b.binnedEmpirical, binned[name], name,
                                 NumParams(name))]]

-----------------------------------------------------------------------------
(* Statistics of the Dashboard, first revision                             *)
(*                                                                         *)
(* Probabilities are fixed-point numbers in units of 1/ProbScale.  The     *)
(* negative binomial r is kept in hundredths, its p in thousandths.        *)
(* Theoretical frequencies are rounded down to whole numbers.              *)

\* the fixed-point unit of every probability mass the model computes
\* (jStat.poisson.pdf, jStat.binomial.pdf, jStat.negbin.pdf, Math.exp(logProb))
ProbScale == 100000

\* OUTLIER_THRESHOLD_PROBABILITY = 0.001, in units of 1/ProbScale
OUTLIER_THRESHOLD_PROBABILITY == 100

IsFinite(x) == x # Infinity

\* x * (num / den)^times
RECURSIVE ScaledPow(_, _, _, _)
ScaledPow(x, num, den, times) ==
    IF times <= 0 THEN x ELSE ScaledPow((x * num) \div den, num, den, times - 1)

\* Math.round(a / b) for a >= 0, b > 0
RoundDiv(a, b) == (2 * a + b) \div (2 * b)

\* data.map(row => Number(row.defects) || 0)
DefectsOf(d) == [i \in 1..Len(d) |-> d[i].defects]

\* data.reduce((sum, row) => sum + row.total, 0)
RECURSIVE TotalItems(_)
TotalItems(d) ==
    IF d = <<>> THEN 0
    ELSE LET rest == TotalItems(Tail(d))
         IN  IF Head(d).total = Infinity \/ rest = Infinity THEN Infinity
             ELSE Head(d).total + rest

RECURSIVE SumSquares(_)
SumSquares(s) == IF s = <<>> THEN 0 ELSE Head(s) * Head(s) + SumSquares(Tail(s))

RECURSIVE MaxOf(_)
MaxOf(s) == IF Len(s) = 1 THEN s[1] ELSE Max(Head(s), MaxOf(Tail(s)))

\* validateData: "ok" or the reason of the Error it throws
validateData(d) ==
    IF Len(d) = 0 THEN "NoData"
    ELSE IF \E i \in 1..Len(d) :
                \/ d[i].total < 0 \/ d[i].defects < 0
                \/ d[i].defects > d[i].total
         THEN "InvalidData"
         ELSE "ok"

\* the precondition checks of calculateBasicStatistics: "ok" or the reason
StatisticsPrecondition(defects, totalItems) ==
    IF Len(defects) = 0 THEN "EmptyDefects"
    ELSE IF ~(\A i \in 1..Len(defects) : IsFinite(defects[i]) /\ defects[i] >= 0)
    THEN "DefectsNotFinite"
    ELSE IF ~IsFinite(totalItems) \/ totalItems < 0 THEN "TotalNotFinite"
    ELSE "ok"

\* mutant: the default r is the mean even when the mean is 0
calculateBasicStatisticsZeroR(defects, totalItems) ==
    LET n == Len(defects)
        sum == SumSeq(defects)
        q == SumSquares(defects)
        m == Max(n - 1, 1)
        hasOverdispersion == 10 * (n * q - sum * sum) > 11 * sum * m
        \* Number.isFinite(r) && r > 0 && Number.isFinite(p) && p > 0 && p < 1
        momentsValid ==
            /\ sum > 0
            /\ n * q - sum * sum - sum * m > 0
            /\ sum * m < n * q - sum * sum
        fallbackR == (sum * 100) \div n
    IN  [n |-> n,
         sum |-> sum,
         totalItems |-> totalItems,
         avgN |-> RoundDiv(totalItems, n),
         hasOverdispersion |-> hasOverdispersion,
         negBinomialMethod |->
             IF hasOverdispersion /\ momentsValid THEN "moments" ELSE "default",
         negBinomialR |->
             IF hasOverdispersion /\ momentsValid
             THEN Max(1, (sum * sum * m * 100) \div (n * (n * q - sum * sum - sum * m)))
             ELSE fallbackR,
         negBinomialP |->
             IF hasOverdispersion /\ momentsValid
             THEN Max(1, Min(999, (sum * m * 1000) \div (n * q - sum * sum)))
             ELSE 500]

\* calculateBasicStatistics, for inputs that pass its preconditions.  With
\* m = max(n - 1, 1) and q the sum of squares,
\*   mean = sum / n,  variance = (n q - sum^2) / (n m),
\*   r = mean^2 / (variance - mean) = sum^2 m / (n (n q - sum^2 - sum m)),
\*   p = mean / variance = sum m / (n q - sum^2).
calculateBasicStatistics(defects, totalItems) ==
    LET n == Len(defects)
        sum == SumSeq(defects)
        q == SumSquares(defects)
        m == Max(n - 1, 1)
        hasOverdispersion == 10 * (n * q - sum * sum) > 11 * sum * m
        \* Number.isFinite(r) && r > 0 && Number.isFinite(p) && p > 0 && p < 1
        momentsValid ==
            /\ sum > 0
            /\ n * q - sum * sum - sum * m > 0
            /\ sum * m < n * q - sum * sum
        fallbackR == IF sum > 0 THEN Max(1, (sum * 100) \div n) ELSE 100
    IN  [n |-> n,
         sum |-> sum,
         totalItems |-> totalItems,
         avgN |-> RoundDiv(totalItems, n),
         hasOverdispersion |-> hasOverdispersion,
         negBinomialMethod |->
             IF hasOverdispersion /\ momentsValid THEN "moments" ELSE "default",
         negBinomialR |->
             IF hasOverdispersion /\ momentsValid
             THEN Max(1, (sum * sum * m * 100) \div (n * (n * q - sum * sum - sum * m)))
             ELSE fallbackR,
         negBinomialP |->
             IF hasOverdispersion /\ momentsValid
             THEN Max(1, Min(999, (sum * m * 1000) \div (n * q - sum * sum)))
             ELSE 500]

\* binomialP = defectRate = sum / totalItems is strictly between 0 and 1
ValidBinomial(stats) ==
    /\ stats.avgN > 0
    /\ stats.totalItems > 0
    /\ stats.sum > 0
    /\ stats.sum < stats.totalItems

\* jStat.binomial.pdf(k, n, p) with p = sum / totalItems
RECURSIVE BinomialPdf(_, _)
BinomialPdf(k, stats) ==
    IF k = 0
    THEN ScaledPow(ProbScale, stats.totalItems - stats.sum, stats.totalItems, stats.avgN)
    ELSE (BinomialPdf(k - 1, stats) * (stats.avgN - k + 1) * stats.sum)
             \div (k * (stats.totalItems - stats.sum))

\* the term lambda^k / k! of the series of exp(lambda), lambda = sum / n
RECURSIVE PoissonTerm(_, _)
PoissonTerm(k, stats) ==
    IF k = 0 THEN ProbScale
    ELSE (PoissonTerm(k - 1, stats) * stats.sum) \div (stats.n * k)

\* exp(lambda), summed until the terms vanish
RECURSIVE ExpSeries(_, _, _)
ExpSeries(k, term, stats) ==
    IF term = 0 THEN 0
    ELSE term + ExpSeries(k + 1, (term * stats.sum) \div (stats.n * (k + 1)), stats)

\* jStat.negbin.pdf(k, r, 1 - negP); the power of the fractional part of r is
\* interpolated linearly
RECURSIVE NegBinPdf(_, _)
NegBinPdf(k, stats) ==
    LET whole == stats.negBinomialR \div 100
        frac == stats.negBinomialR % 100
        jStatP == 1000 - stats.negBinomialP
        x == ScaledPow(ProbScale, jStatP, 1000, whole)
    IN  IF k = 0
        THEN x - (((x * frac) \div 100) * (1000 - jStatP)) \div 1000
        ELSE (((NegBinPdf(k - 1, stats) * ((k - 1) * 100 + stats.negBinomialR))
                  \div (k * 100)) * stats.negBinomialP) \div 1000

\* calculateOutlierBound('Binomial', ...): the loop from k on
RECURSIVE BinomialBoundLoop(_, _, _, _)
BinomialBoundLoop(k, cumulativeProb, upperBound, stats) ==
    IF k <= stats.avgN /\ cumulativeProb < ProbScale - OUTLIER_THRESHOLD_PROBABILITY
    THEN BinomialBoundLoop(k + 1, cumulativeProb + BinomialPdf(k, stats), k, stats)
    ELSE upperBound

calculateOutlierBound(stats) ==
    IF ~ValidBinomial(stats) THEN Infinity
    ELSE BinomialBoundLoop(0, 0, 0, stats)

\* filterOutliers(defects, 'Binomial', params)
filterOutliers(defects, stats) ==
    LET upperBound == calculateOutlierBound(stats)
        Kept(d) == d <= upperBound
    IN  SelectSeq(defects, Kept)

\* empiricalFrequencies: Array(maxDefects + 1).fill(0), then one count per value
EmpiricalFrequencies(filteredDefects) ==
    [k \in 1..(MaxOf(filteredDefects) + 1) |->
        Cardinality({i \in 1..Len(filteredDefects) : filteredDefects[i] = k - 1})]

\* calculateTheoreticalFrequencies
calculateTheoreticalFrequencies(filteredDefects, stats) ==
    LET filteredDefectsLength == Len(filteredDefects)
        maxDefects == MaxOf(filteredDefects)
        expLambda == ExpSeries(0, ProbScale, stats)
        negBin(k) == (NegBinPdf(k, stats) * filteredDefectsLength) \div ProbScale
    IN  [poissonFrequencies |->
             [j \in 1..(maxDefects + 1) |->
                 IF stats.sum <= 0 THEN 0
                 ELSE (PoissonTerm(j - 1, stats) * filteredDefectsLength) \div expLambda],
         binomialFrequencies |->
             [j \in 1..(maxDefects + 1) |->
                 IF j - 1 > stats.avgN \/ ~ValidBinomial(stats) THEN 0
                 ELSE (BinomialPdf(j - 1, stats) * filteredDefectsLength) \div ProbScale],
         negBinomialFrequencies |->
             [j \in 1..(maxDefects + 1) |->
                 IF negBin(j - 1) > filteredDefectsLength * 2 THEN 0
                 ELSE negBin(j - 1)]]

-----------------------------------------------------------------------------
(* Dashboard state                                                         *)

\* `criticalValues` of an analysis object that has no such property: the
\* initial state and the object handleFile stores do not have it, the
\* ResultSummary adds it
NoCriticalValues == [Poisson |-> -1, Binomial |-> -1, NegativeBinomial |-> -1]

\* useState initial value of `analysis` (Dashboard.jsx:31-44)
InitialAnalysis ==
    [distribution |-> "",
     empiricalFrequencies |-> <<>>,
     theoreticalFrequencies |->
         [Poisson |-> <<>>, Binomial |-> <<>>, NegativeBinomial |-> <<>>],
     chiSquareValues |->
         [Poisson |-> 0, Binomial |-> 0, NegativeBinomial |-> 0, criticalValue |-> 0],
     pValues |-> [Poisson |-> 0, Binomial |-> 0, NegativeBinomial |-> 0],
     degreesOfFreedom |-> 0,
     significanceLevel |-> DEFAULT_SIGNIFICANCE_LEVEL,
     hypothesisAccepted |-> FALSE,
     binLabels |-> <<>>,
     criticalValues |-> NoCriticalValues]

-----------------------------------------------------------------------------
(* The analysis effect of the Dashboard, first revision                    *)

\* results.find(r => r.name === name)?.[field] || 0
FieldOf(results, name, field) ==
    IF \E k \in 1..Len(results) : results[k].name = name
    THEN (CHOOSE r \in {results[k] : k \in 1..Len(results)} : r.name = name)[field]
    ELSE 0

\* finalAnalysis: { ...analysis, distribution: best?.name || '', ... }; the
\* spread keeps the properties the literal does not name, significanceLevel
\* and criticalValues
FinalAnalysis(previous, r) ==
    [distribution |-> IF r.best = Null THEN "" ELSE r.best.name,
     empiricalFrequencies |-> r.binnedEmpirical,
     theoreticalFrequencies |->
         [Poisson |-> r.binned["Poisson"],
          Binomial |-> r.binned["Binomial"],
          NegativeBinomial |-> r.binned["NegativeBinomial"]],
     chiSquareValues |->
         [Poisson |-> FieldOf(r.results, "Poisson", "chi2"),
          Binomial |-> FieldOf(r.results, "Binomial", "chi2"),
          NegativeBinomial |-> FieldOf(r.results, "NegativeBinomial", "chi2"),
          criticalValue |-> IF r.best = Null THEN 0 ELSE r.best.critical],
     pValues |->
         [Poisson |-> FieldOf(r.results, "Poisson", "pValue"),
          Binomial |-> FieldOf(r.results, "Binomial", "pValue"),
          NegativeBinomial |-> FieldOf(r.results, "NegativeBinomial", "pValue")],
     degreesOfFreedom |-> IF r.best = Null THEN 0 ELSE r.best.df,
     significanceLevel |-> previous.significanceLevel,
     hypothesisAccepted |-> Len(r.accepted) > 0,
     binLabels |-> r.binLabels,
     criticalValues |-> previous.criticalValues]

\* the try block of the effect up to filteredDefects: the Error it throws
\* ("ok" if none) and filteredDefects
Filtering(d, withOutliers) ==
    LET defects == DefectsOf(d)
        totalItems == TotalItems(d)
        checked ==
            IF validateData(d) # "ok" THEN validateData(d)
            ELSE StatisticsPrecondition(defects, totalItems)
        stats == calculateBasicStatistics(defects, totalItems)
        filteredDefects ==
            IF withOutliers THEN defects ELSE filterOutliers(defects, stats)
    IN  IF checked # "ok" THEN [message |-> checked, filteredDefects |-> <<>>]
        ELSE IF Len(filteredDefects) = 0
        THEN [message |-> "EmptyAfterFilter", filteredDefects |-> <<>>]
        ELSE [message |-> "ok", filteredDefects |-> filteredDefects]

\* the rest of the try block, for filteredDefects that are not empty
Fitting(d, filteredDefects, significanceLevel) ==
    LET stats == calculateBasicStatistics(DefectsOf(d), TotalItems(d))
        theoretical == calculateTheoreticalFrequencies(filteredDefects, stats)
    IN  PipelineRun(1, EmpiricalFrequencies(filteredDefects),
                    theoretical.poissonFrequencies,
                    theoretical.binomialFrequencies,
                    theoretical.negBinomialFrequencies,
                    significanceLevel)

-----------------------------------------------------------------------------
(* ResultSummary: critical values and the significance level field         *)

\* getDegreesOfFreedom: const validBins = analysis.validBins || 11
DEFAULT_VALID_BINS == 11

\* getDegreesOfFreedom(dist).  The first revision of the Dashboard stores no
\* chiSquareResults and no validBins, and its degreesOfFreedom is a number,
\* so the function takes its last branch.
getDegreesOfFreedom(dist) ==
    LET validBins == DEFAULT_VALID_BINS
    IN  IF dist = "Poisson" THEN Max(1, validBins - 1 - 1)
        ELSE Max(1, validBins - 1 - 2)

\* calculateCriticalValue(dist, significanceLevel)
calculateCriticalValue(dist, significanceLevel) ==
    LET df == getDegreesOfFreedom(dist)
    IN  IF IsFinite(df) /\ df > 0 THEN ChiSquareInv(significanceLevel, df)
        ELSE Infinity

\* calculateCriticalValues(significanceLevel)
calculateCriticalValues(significanceLevel) ==
    [Poisson |-> calculateCriticalValue("Poisson", significanceLevel),
     Binomial |-> calculateCriticalValue("Binomial", significanceLevel),
     NegativeBinomial |-> calculateCriticalValue("NegativeBinomial", significanceLevel)]

\* isHypothesisAccepted(dist, criticalValue) on the analysis `a` the component
\* was rendered with
isHypothesisAccepted(a, dist, criticalValue) ==
    /\ IsFinite(a.chiSquareValues[dist])
    /\ IsFinite(criticalValue)
    /\ IsFinite(a.pValues[dist])
    /\ a.chiSquareValues[dist] < criticalValue
    /\ a.pValues[dist] >= a.significanceLevel

\* mutant: the new level drops the stored statistics
SignificanceUpdateFresh(a, value) ==
    [InitialAnalysis EXCEPT !.significanceLevel = value,
                            !.criticalValues = calculateCriticalValues(value)]

\* handleSignificanceChange, the object its setAnalysis stores for a value
\* in the range: { ...prev, significanceLevel, criticalValues,
\* hypothesisAccepted }
SignificanceUpdate(a, value) ==
    LET newCriticalValues == calculateCriticalValues(value)
    IN  [a EXCEPT !.significanceLevel = value,
                  !.criticalValues = newCriticalValues,
                  !.hypothesisAccepted =
                      \E k \in DOMAIN DistNames :
                          isHypothesisAccepted(a, DistNames[k],
                                               newCriticalValues[DistNames[k]])]

\* the effect of ResultSummary: { ...prev, criticalValues }
SummaryUpdate(a) ==
    IF a.significanceLevel # 0
    THEN [a EXCEPT !.criticalValues = calculateCriticalValues(a.significanceLevel)]
    ELSE a

-----------------------------------------------------------------------------
(* Spec: the Dashboard with its FileUploader, DataTable and ResultSummary   *)

Record(total, defects) == [total |-> total, defects |-> defects]

RECURSIVE Batches(_, _)
Batches(row, count) == IF count = 0 THEN <<>> ELSE <<row>> \o Batches(row, count - 1)

\* The rows of the files the user picks: a sample of 30 batches, one that
\* fits the Poisson law with a p-value between 0.05 and 0.10, one with an
\* outlying batch, a sample of three batches, a sheet whose first
\* details_in_party cell reads Infinity, one whose defects exceed the
\* total, and an empty sheet.
Files ==
    { Batches(Record(10, 0), 9) \o Batches(Record(10, 1), 11)
          \o Batches(Record(10, 2), 7) \o Batches(Record(10, 3), 3),
      Batches(Record(10, 0), 12) \o Batches(Record(10, 1), 8)
          \o Batches(Record(10, 2), 9) \o Batches(Record(10, 3), 1),
      Batches(Record(10, 0), 12) \o Batches(Record(10, 1), 10)
          \o Batches(Record(10, 2), 6) \o Batches(Record(10, 3), 1)
          \o Batches(Record(10, 7), 1),
      <<Record(5, 0), Record(5, 1), Record(5, 2)>>,
      <<Record(Infinity, 1), Record(5, 0)>>,
      <<Record(2, 3)>>,
      <<>> }

\* the numbers the user types into a table cell (parseFloat of the text)
EditValues == {0, 3, Infinity}

\* the numbers the user types into the significance level field, in
\* thousandths: two values of the range [0.001, 0.20] and one outside it
SignificanceValues == {10, 100, 250}

Init ==
    /\ def = 1
    /\ data = <<>>
    /\ includeOutliers = FALSE
    /\ error = "null"
    /\ analysis = InitialAnalysis
    /\ dirty = TRUE
    /\ run = [stage |-> "idle"]
    /\ filtered = <<>>
    /\ lastValid = InitialAnalysis
    /\ steps = 0
    /\ fileError = "null"
    /\ summaryDirty = TRUE
    /\ trigger = "mount"
    /\ posted = <<>>

\* a user event is handled once the pending effects have run
UserEvent ==
    /\ ~dirty
    /\ ~summaryDirty
    /\ steps < MaxSteps
    /\ steps' = steps + 1

\* lastValid follows the analysis through the updates of the ResultSummary,
\* which do not come from an analysis run
Follow(next) == IF analysis = lastValid THEN next ELSE lastValid

\* FileUploader.handleFile, reader.onload: the rows of the sheet as numbers.
\* The object it stores has a new theoreticalFrequencies, a dependency of
\* the ResultSummary effect.
HandleFile(rows) ==
    /\ UserEvent
    /\ IF \E i \in 1..Len(rows) :
              \/ rows[i].total < 0 \/ rows[i].defects < 0
              \/ rows[i].defects > rows[i].total
       THEN /\ fileError' = "InvalidRow"
            /\ UNCHANGED <<data, analysis, dirty, summaryDirty, trigger>>
       ELSE IF Len(rows) = 0
       THEN /\ fileError' = "EmptyFile"
            /\ UNCHANGED <<data, analysis, dirty, summaryDirty, trigger>>
       ELSE /\ data' = rows
            /\ fileError' = "null"
            /\ analysis' = InitialAnalysis
            /\ dirty' = TRUE
            /\ summaryDirty' = TRUE
            /\ trigger' = "data"
    /\ UNCHANGED <<def, includeOutliers, error, run, filtered, lastValid, posted>>

\* DataTable.handleChange(index, field, value)
HandleChange(index, field, numValue) ==
    /\ UserEvent
    /\ index \in 1..Len(data)
    /\ IF numValue < 0 \/ (field = "defects" /\ numValue > data[index].total)
       THEN UNCHANGED <<data, dirty, trigger>>
       ELSE /\ data' = [data EXCEPT ![index][field] = numValue]
            /\ dirty' = TRUE
            /\ trigger' = "data"
    /\ UNCHANGED <<def, includeOutliers, error, analysis, run, filtered,
                   lastValid, fileError, summaryDirty, posted>>

\* DataTable.handleAddBatch
HandleAddBatch ==
    /\ UserEvent
    /\ data' = Append(data, Record(0, 0))
    /\ dirty' = TRUE
    /\ trigger' = "data"
    /\ UNCHANGED <<def, includeOutliers, error, analysis, run, filtered,
                   lastValid, fileError, summaryDirty, posted>>

\* DataTable.handleResetData
HandleResetData ==
    /\ UserEvent
    /\ data' = <<Record(0, 0)>>
    /\ dirty' = TRUE
    /\ trigger' = "data"
    /\ UNCHANGED <<def, includeOutliers, error, analysis, run, filtered,
                   lastValid, fileError, summaryDirty, posted>>

\* handleOutliersToggle: the checkbox flips
HandleOutliersToggle ==
    /\ UserEvent
    /\ includeOutliers' = ~includeOutliers
    /\ dirty' = TRUE
    /\ trigger' = "outliers"
    /\ UNCHANGED <<def, data, error, analysis, run, filtered, lastValid,
                   fileError, summaryDirty, posted>>

\* handleCloseSnackbar; the snackbar is open while error is set, and error
\* is a dependency of the analysis effect
HandleCloseSnackbar ==
    /\ UserEvent
    /\ error # "null"
    /\ error' = "null"
    /\ dirty' = TRUE
    /\ trigger' = "error"
    /\ UNCHANGED <<def, data, includeOutliers, analysis, run, filtered,
                   lastValid, fileError, summaryDirty, posted>>

\* ResultSummary.handleSignificanceChange(value): a value of the range is
\* stored with new critical values and a new hypothesisAccepted, any other
\* value only opens the snackbar of the component.  analysis.significanceLevel
\* is a dependency of both effects.
HandleSignificanceChange(value) ==
    /\ UserEvent
    /\ IF value >= 1 /\ value <= 200
       THEN /\ analysis' = SignificanceUpdate(analysis, value)
            /\ lastValid' = Follow(SignificanceUpdate(analysis, value))
            /\ dirty' = (value # analysis.significanceLevel)
            /\ summaryDirty' = (value # analysis.significanceLevel)
            /\ trigger' = IF value # analysis.significanceLevel
                          THEN "significance" ELSE trigger
       ELSE UNCHANGED <<analysis, lastValid, dirty, summaryDirty, trigger>>
    /\ UNCHANGED <<def, data, includeOutliers, error, run, filtered, fileError,
                   posted>>

\* the effect of ResultSummary when it runs in a commit of its own
SummaryEffect ==
    /\ ~dirty
    /\ summaryDirty
    /\ analysis' = SummaryUpdate(analysis)
    /\ lastValid' = Follow(SummaryUpdate(analysis))
    /\ summaryDirty' = FALSE
    /\ UNCHANGED <<def, data, includeOutliers, error, dirty, run, filtered,
                   steps, fileError, trigger, posted>>

\* the analysis effect: it returns at once without data, stores the result
\* and clears the error if the run succeeds, and stores the message of the
\* Error otherwise.  A change of `error` runs the effect once more.
\* ResultSummary is a child of the Dashboard: when its effect is pending in
\* the same commit it runs first and queues its updater; the finalAnalysis
\* of a successful run, built from the analysis of the render, is queued
\* after it and replaces its outcome.  The stored theoreticalFrequencies is
\* a new object, which schedules the ResultSummary effect again.
AnalysisEffect ==
    /\ dirty
    /\ LET afterSummary ==
               IF summaryDirty THEN SummaryUpdate(analysis) ELSE analysis
       IN  IF Len(data) = 0
           THEN /\ dirty' = FALSE
                /\ analysis' = afterSummary
                /\ lastValid' = Follow(afterSummary)
                /\ summaryDirty' = FALSE
                /\ UNCHANGED <<error, run, filtered>>
           ELSE LET f == Filtering(data, includeOutliers)
                IN  IF f.message # "ok"
                    THEN /\ error' = f.message
                         /\ dirty' = (error # f.message)
                         /\ run' = [stage |-> "failed"]
                         /\ analysis' = afterSummary
                         /\ lastValid' = Follow(afterSummary)
                         /\ summaryDirty' = FALSE
                         /\ UNCHANGED filtered
                    ELSE LET r == Fitting(data, f.filteredDefects,
                                          analysis.significanceLevel)
                         IN  /\ analysis' = FinalAnalysis(analysis, r)
                             /\ lastValid' = FinalAnalysis(analysis, r)
                             /\ summaryDirty' = TRUE
                             /\ error' = "null"
                             /\ dirty' = (error # "null")
                             /\ run' = r
                             /\ filtered' = f.filteredDefects
    /\ trigger' = IF dirty' THEN "error" ELSE "none"
    /\ UNCHANGED <<def, data, includeOutliers, steps, fileError, posted>>

Next ==
    \/ \E rows \in Files : HandleFile(rows)
    \/ \E index \in 1..MaxEditRow, field \in {"total", "defects"},
          numValue \in EditValues : HandleChange(index, field, numValue)
    \/ HandleAddBatch
    \/ HandleResetData
    \/ HandleOutliersToggle
    \/ HandleCloseSnackbar
    \/ \E value \in SignificanceValues : HandleSignificanceChange(value)
    \/ SummaryEffect
    \/ AnalysisEffect

Spec == Init /\ [][Next]_vars

-----------------------------------------------------------------------------
(* worker.js: the message handler from the records on                      *)

\* [...defects].sort((a, b) => a - b)
RECURSIVE InsertSorted(_, _)
InsertSorted(x, s) ==
    IF s = <<>> THEN <<x>>
    ELSE IF x <= Head(s) THEN <<x>> \o s
    ELSE <<Head(s)>> \o InsertSorted(x, Tail(s))

RECURSIVE SortAscending(_)
SortAscending(s) ==
    IF s = <<>> THEN <<>> ELSE InsertSorted(Head(s), SortAscending(Tail(s)))

\* the bound when Q3 - Q1 or threshold * IQR is NaN (Infinity - Infinity,
\* 0 * Infinity): every comparison d <= NaN is false
NaNBound == 0 - Infinity

\* twice Q3 + threshold * IQR with IQR = Q3 - Q1, for twice the threshold
IQRBoundTwice(Q1, Q3, thresholdTwice) ==
    IF Q3 = Infinity
    THEN IF Q1 = Infinity \/ thresholdTwice = 0 THEN NaNBound ELSE 2 * Infinity
    ELSE 2 * Q3 + thresholdTwice * (Q3 - Q1)

\* twice upperBoundIQR of filterOutliers(defects, threshold), with
\* Q1 = sorted[floor(n * 0.25)] and Q3 = sorted[floor(n * 0.75)]
UpperBoundThresholdTwice(defects, thresholdTwice) ==
    LET sortedDefects == SortAscending(defects)
        n == Len(defects)
        Q1 == sortedDefects[(n \div 4) + 1]
        Q3 == sortedDefects[((3 * n) \div 4) + 1]
    IN  IQRBoundTwice(Q1, Q3, thresholdTwice)

\* filterOutliers of the worker: twice upperBoundIQR = 2 Q3 + 3 IQR
UpperBoundIQRTwice(defects) == UpperBoundThresholdTwice(defects, 3)

\* mutant: the comparison with the bound is strict
filterOutliersIQRStrict(defects) ==
    LET upperBoundTwice == UpperBoundIQRTwice(defects)
        Kept(d) == 2 * d < upperBoundTwice
    IN  SelectSeq(defects, Kept)

\* filterOutliers of the worker: defects.filter((d) => d <= upperBoundIQR)
filterOutliersIQR(defects) ==
    LET upperBoundTwice == UpperBoundIQRTwice(defects)
        Kept(d) == 2 * d <= upperBoundTwice
    IN  SelectSeq(defects, Kept)

\* mutant: the comparison with the bound of the parameterised filter is strict
filterOutliersThresholdStrict(defects, thresholdTwice) ==
    LET upperBoundTwice == UpperBoundThresholdTwice(defects, thresholdTwice)
        Kept(d) == 2 * d < upperBoundTwice
    IN  SelectSeq(defects, Kept)

\* filterOutliers(defects, threshold) of the earlier Dashboard: the worker's
\* filter with the multiplier of the IQR as a parameter
filterOutliersThreshold(defects, thresholdTwice) ==
    LET upperBoundTwice == UpperBoundThresholdTwice(defects, thresholdTwice)
        Kept(d) == 2 * d <= upperBoundTwice
    IN  SelectSeq(defects, Kept)

\* suggestDistribution(filteredDefects, totalItems): with q the sum of
\* squares and m = max(n - 1, 1), mean = sum / n and
\* variance = spread / (n m) where spread = n q - sum^2
suggestDistribution(defects, totalItems) ==
    LET n == Len(defects)
        sum == SumSeq(defects)
    IN  [n |-> n,
         sum |-> sum,
         m |-> Max(n - 1, 1),
         spread |-> n * SumSquares(defects) - sum * sum,
         totalItems |-> totalItems]

\* variance > mean
WorkerOverdispersed(s) == s.spread > s.sum * s.m

\* poissonFrequencies: exp(k log(lambda) - lambda - gammaln(k + 1)) times the
\* number of filtered values; log(0) makes every entry 0
WorkerPoissonFrequencies(s, maxDefects) ==
    [j \in 1..(maxDefects + 1) |->
        IF s.sum <= 0 THEN 0
        ELSE (PoissonTerm(j - 1, s) * s.n) \div ExpSeries(0, ProbScale, s)]

\* the sum over the rows of binomial pmf(k; n, binomialP) * (n / totalItems),
\* the rows grouped by their n = row.total; binomialP is the weighted mean
\* of defects / total, that is sum of defects / sum of totals
RECURSIVE WorkerBinomialMixture(_, _, _, _)
WorkerBinomialMixture(k, totals, d, binomial) ==
    IF totals = {} THEN 0
    ELSE LET n == CHOOSE t \in totals : \A u \in totals : t <= u
             rows == Cardinality({i \in 1..Len(d) : d[i].total = n})
             prob == IF k > n THEN 0
                     ELSE BinomialPdf(k, [binomial EXCEPT !.avgN = n])
         IN  (prob * rows * n) \div binomial.totalItems
             + WorkerBinomialMixture(k, totals \ {n}, d, binomial)

\* binomialFrequencies; log(0) or log(1 - 1) makes every entry 0
WorkerBinomialFrequencies(d, filteredDefectsLength, maxDefects) ==
    LET binomial == [avgN |-> 0,
                     sum |-> SumSeq(DefectsOf(d)),
                     totalItems |-> TotalItems(d)]
    IN  [j \in 1..(maxDefects + 1) |->
            IF binomial.sum <= 0 \/ binomial.sum >= binomial.totalItems THEN 0
            ELSE (WorkerBinomialMixture(j - 1, {d[i].total : i \in 1..Len(d)},
                                        d, binomial)
                     * filteredDefectsLength) \div ProbScale]

\* optimizeNegBinomialR(mean, variance, negBinomialP): the first newR of the
\* loop equals the starting r when variance > mean, and is the mean when
\* negBinomialP is 0.5; the result is Math.max(1, Math.round(r))
optimizeNegBinomialR(s) ==
    IF WorkerOverdispersed(s)
    THEN Max(1, RoundDiv(s.sum * s.sum * s.m, s.n * (s.spread - s.sum * s.m)))
    ELSE Max(1, RoundDiv(s.sum, s.n))

\* x * (num / den) for x * num beyond 32 bits
MulRatio(x, num, den) == (x \div den) * num + ((x % den) * num) \div den

\* exp(logCoef + r log(1 - p) + k log(p)) = C(k + r - 1, k) (1 - p)^r p^k with
\* 1 - negBinomialP = mean / variance = sum m / spread, or 1/2
RECURSIVE WorkerNegBinPdf(_, _)
WorkerNegBinPdf(k, s) ==
    LET r == optimizeNegBinomialR(s)
        num == IF WorkerOverdispersed(s) THEN s.sum * s.m ELSE 1
        den == IF WorkerOverdispersed(s) THEN s.spread ELSE 2
    IN  IF k = 0 THEN ScaledPow(ProbScale, num, den, r)
        ELSE MulRatio((WorkerNegBinPdf(k - 1, s) * (k - 1 + r)) \div k,
                      den - num, den)

\* negBinomialFrequencies
WorkerNegBinomialFrequencies(s, maxDefects) ==
    [j \in 1..(maxDefects + 1) |-> (WorkerNegBinPdf(j - 1, s) * s.n) \div ProbScale]

\* Math.log(n) in thousandths, n = 1..64
LnThousandths ==
    << 0, 693, 1099, 1386, 1609, 1792, 1946, 2079,
       2197, 2303, 2398, 2485, 2565, 2639, 2708, 2773,
       2833, 2890, 2944, 2996, 3045, 3091, 3135, 3178,
       3219, 3258, 3296, 3332, 3367, 3401, 3434, 3466,
       3497, 3526, 3555, 3584, 3611, 3638, 3664, 3689,
       3714, 3738, 3761, 3784, 3807, 3829, 3850, 3871,
       3892, 3912, 3932, 3951, 3970, 3989, 4007, 4025,
       4043, 4060, 4078, 4094, 4111, 4127, 4143, 4159 >>

\* 2 * numParams * Math.log(filteredDefects.length) + chi2, in thousandths
WorkerAIC(r, filteredDefectsLength) ==
    IF r.numParams = Infinity \/ r.chi2 = Infinity THEN Infinity
    ELSE 2 * r.numParams * LnThousandths[filteredDefectsLength] + r.chi2

\* results.reduce(..., { chi2: Infinity, numParams: Infinity })
RECURSIVE WorkerBest(_, _, _, _)
WorkerBest(results, i, prev, filteredDefectsLength) ==
    IF i > Len(results) THEN prev
    ELSE LET aicPrev == WorkerAIC(prev, filteredDefectsLength)
             aicCurr == WorkerAIC(results[i], filteredDefectsLength)
         IN  WorkerBest(results, i + 1,
                        IF IsFinite(aicCurr) /\ aicCurr < aicPrev
                        THEN results[i] ELSE prev,
                        filteredDefectsLength)

\* the entry of `results` for one distribution.  pValue > significanceLevel
\* is kept as `above`: 1 - cdf is strictly decreasing, so the p-value
\* exceeds the level exactly when chi2 is below the critical value.
WorkerResultEntry(name, chi, significanceLevel) ==
    [name |-> name,
     chi2 |-> chi.chi2,
     pValue |-> ChiSquareSurvival(chi.chi2, chi.df),
     above |-> chi.chi2 < ChiSquareInv(significanceLevel, chi.df),
     df |-> chi.df,
     critical |-> ChiSquareInv(significanceLevel, chi.df),
     numParams |-> NumParams(name)]

\* the analysis of the 'result' message
WorkerAnalysis(w, best, significanceLevel) ==
    [distribution |-> best.name,
     empiricalFrequencies |-> w.binnedEmpirical,
     theoreticalFrequencies |->
         [Poisson |-> w.binned["Poisson"],
          Binomial |-> w.binned["Binomial"],
          NegativeBinomial |-> w.binned["NegativeBinomial"]],
     chiSquareValues |->
         [Poisson |-> w.chi["Poisson"].chi2,
          Binomial |-> w.chi["Binomial"].chi2,
          NegativeBinomial |-> w.chi["NegativeBinomial"].chi2,
          criticalValue |-> best.critical],
     pValues |->
         [Poisson |-> ChiSquareSurvival(w.chi["Poisson"].chi2, w.chi["Poisson"].df),
          Binomial |-> ChiSquareSurvival(w.chi["Binomial"].chi2, w.chi["Binomial"].df),
          NegativeBinomial |-> ChiSquareSurvival(w.chi["NegativeBinomial"].chi2,
                                                 w.chi["NegativeBinomial"].df)],
     degreesOfFreedom |-> best.df,
     significanceLevel |-> significanceLevel,
     hypothesisAccepted |->
         best.chi2 < best.critical /\ IsFinite(best.chi2) /\ best.above,
     binLabels |-> w.binLabels]

\* the row check of the handler
WorkerRowsValid(d) ==
    \A i \in 1..Len(d) :
        ~(d[i].total < 0 \/ d[i].defects < 0 \/ d[i].defects > d[i].total)

\* the try block of self.onmessage: the 'log' messages posted on the way,
\* then either the Error thrown or the analysis computed
WorkerOutcome(d, significanceLevel) ==
    IF Len(d) = 0 THEN [type |-> "error", message |-> "NoData", logs |-> 0]
    ELSE IF ~WorkerRowsValid(d)
    THEN [type |-> "error", message |-> "InvalidData", logs |-> 1]
    ELSE IF Len(d) < MIN_RECORDS
    THEN [type |-> "error", message |-> "TooFewRecords", logs |-> 0]
    ELSE LET filteredDefects == filterOutliersIQR(DefectsOf(d))
             s == suggestDistribution(filteredDefects, TotalItems(d))
             maxDefects == MaxOf(filteredDefects)
             w == WorkerRun(EmpiricalFrequencies(filteredDefects),
                            WorkerPoissonFrequencies(s, maxDefects),
                            WorkerBinomialFrequencies(d, Len(filteredDefects),
                                                      maxDefects),
                            WorkerNegBinomialFrequencies(s, maxDefects),
                            significanceLevel)
             results == [k \in 1..Len(DistNames) |->
                            WorkerResultEntry(DistNames[k], w.chi[DistNames[k]],
                                              significanceLevel)]
             best == WorkerBest(results, 1,
                                [name |-> "", chi2 |-> Infinity,
                                 numParams |-> Infinity],
                                Len(filteredDefects))
         IN  IF Len(filteredDefects) = 0
             THEN [type |-> "error", message |-> "EmptyAfterFilter", logs |-> 1]
             ELSE [type |-> "result", logs |-> 2,
                   filteredDefects |-> filteredDefects,
                   run |-> w,
                   analysis |-> WorkerAnalysis(w, best, significanceLevel)]

\* n messages of type 'log'
RECURSIVE LogMessages(_)
LogMessages(n) == IF n = 0 THEN <<>> ELSE <<[type |-> "log"]>> \o LogMessages(n - 1)

\* mutant: the result is posted and the catch block posts as well
PostedByBoth(outcome) ==
    LogMessages(outcome.logs)
        \o (IF outcome.type = "result"
            THEN <<[type |-> "result", analysis |-> outcome.analysis]>>
            ELSE <<>>)
        \o <<[type |-> "error"]>>

\* the messages self.postMessage is called with while one request is handled
PostedBy(outcome) ==
    LogMessages(outcome.logs)
        \o (IF outcome.type = "result"
            THEN <<[type |-> "result", analysis |-> outcome.analysis]>>
            ELSE <<[type |-> "error"]>>)

-----------------------------------------------------------------------------
(* SpecFit: the fitting pipeline as a function of the frequency vectors    *)

\* One support value of an input: <<observed, Poisson, Binomial, NegBinomial>>
\* frequencies.  Expected 6 and 8 are sufficient alone, 5 is the threshold
\* itself, 2 needs merging, 0 is a value outside a distribution's support.
CellProfiles ==
    { <<9, 6, 6, 6>>, <<6, 6, 6, 6>>, <<3, 6, 6, 6>>, <<0, 6, 6, 6>>,
      <<3, 6, 5, 6>>, <<5, 8, 5, 8>>, <<1, 2, 6, 0>>, <<1, 0, 0, 0>> }

Column(cells, j) == [i \in 1..Len(cells) |-> cells[i][j]]

InitFit ==
    /\ def \in {1, 2}
    /\ data = <<>>
    /\ includeOutliers = FALSE
    /\ error = "null"
    /\ analysis = InitialAnalysis
    /\ dirty = FALSE
    /\ filtered = <<>>
    /\ lastValid = InitialAnalysis
    /\ steps = 0
    /\ fileError = "null"
    /\ summaryDirty = FALSE
    /\ trigger = "none"
    /\ posted = <<>>
    /\ \E n \in 1..MaxSupport :
         \E cells \in [1..n -> CellProfiles] :
            \* the largest defect count occurs in the sample, and a PMF times
            \* the sample size sums to at most the sample size
            /\ cells[n][1] >= 1
            /\ \A j \in 2..4 : SumSeq(Column(cells, j)) <= SumSeq(Column(cells, 1))
            /\ run = [stage |-> "input",
                   empirical |-> Column(cells, 1),
                   poisson |-> Column(cells, 2),
                   binomial |-> Column(cells, 3),
                   negBinomial |-> Column(cells, 4),
                   significanceLevel |-> DEFAULT_SIGNIFICANCE_LEVEL]

\* createOptimalBins followed by analyzeDistributions on the drawn vectors
FitRun ==
    /\ run.stage = "input"
    /\ run' = PipelineRun(def, run.empirical, run.poisson, run.binomial,
                          run.negBinomial, run.significanceLevel)
    /\ UNCHANGED <<def, data, includeOutliers, error, analysis, dirty, filtered,
                   lastValid, steps, fileError, summaryDirty, trigger, posted>>

NextFit == FitRun

SpecFit == InitFit /\ [][NextFit]_vars

-----------------------------------------------------------------------------
(* The worker checked as a function of the frequency vectors               *)

\* The worker analyses 30 records at least and its filter keeps every value
\* up to the upper quartile, so floor(0.75 n) + 1 values at least are left.
InitWorker ==
    /\ def = 3
    /\ data = <<>>
    /\ includeOutliers = FALSE
    /\ error = "null"
    /\ analysis = InitialAnalysis
    /\ dirty = FALSE
    /\ filtered = <<>>
    /\ lastValid = InitialAnalysis
    /\ steps = 0
    /\ fileError = "null"
    /\ summaryDirty = FALSE
    /\ trigger = "none"
    /\ posted = <<>>
    /\ \E n \in 1..MaxSupport : \E cells \in [1..n -> CellProfiles] :
          /\ cells[n][1] >= 1
          /\ SumSeq(Column(cells, 1)) >= (3 * MIN_RECORDS) \div 4 + 1
          /\ \A j \in 2..4 : SumSeq(Column(cells, j)) <= SumSeq(Column(cells, 1))
          /\ run = [stage |-> "input",
                    empirical |-> Column(cells, 1),
                    poisson |-> Column(cells, 2),
                    binomial |-> Column(cells, 3),
                    negBinomial |-> Column(cells, 4),
                    significanceLevel |-> DEFAULT_SIGNIFICANCE_LEVEL]

WorkerMessage ==
    /\ run.stage = "input"
    /\ run' = WorkerRun(run.empirical, run.poisson, run.binomial,
                        run.negBinomial, run.significanceLevel)
    /\ UNCHANGED <<def, data, includeOutliers, error, analysis, dirty, filtered,
                   lastValid, steps, fileError, summaryDirty, trigger, posted>>

NextWorker == WorkerMessage

SpecWorker == InitWorker /\ [][NextWorker]_vars

-----------------------------------------------------------------------------
(* SpecMessage: the worker handling one request                            *)

\* the counts of batches with 0, 1, 2 and 3 defects in the requests
WorkerCounts ==
    {c \in [1..4 -> {0, 2, 3, 5, 8, 11, 14}] :
        /\ c[1] \in {8, 11, 14}
        /\ c[2] \in {8, 11}
        /\ c[3] \in {3, 5, 8}
        /\ c[4] \in {0, 2}}

\* The record sets of the requests: batches of 10 items in the order the
\* rows were entered (not sorted by defects), with or without one batch of
\* 4 or 9 defects; a set of three records, a set with a row whose defects
\* exceed the total, and the empty set.
WorkerRequests ==
    { Batches(Record(10, 1), c[2]) \o extra \o Batches(Record(10, 0), c[1])
          \o Batches(Record(10, 3), c[4]) \o Batches(Record(10, 2), c[3]) :
        c \in WorkerCounts,
        extra \in {<<>>, <<Record(10, 4)>>, <<Record(10, 9)>>} }
    \cup { <<Record(5, 0), Record(5, 1), Record(5, 2)>>,
           Batches(Record(10, 1), 30) \o <<Record(2, 3)>>,
           <<>> }

InitMessage ==
    /\ def = 3
    /\ data \in WorkerRequests
    /\ includeOutliers = FALSE
    /\ error = "null"
    /\ analysis = InitialAnalysis
    /\ dirty = FALSE
    /\ filtered = <<>>
    /\ lastValid = InitialAnalysis
    /\ steps = 0
    /\ fileError = "null"
    /\ summaryDirty = FALSE
    /\ trigger = "none"
    /\ posted = <<>>
    /\ \E significanceLevel \in {10, 50} :
          run = [stage |-> "message", significanceLevel |-> significanceLevel]

\* self.onmessage({ data: { data, significanceLevel } }): the try block and
\* its catch
OnMessage ==
    /\ run.stage = "message"
    /\ LET outcome == WorkerOutcome(data, run.significanceLevel)
       IN  /\ posted' = PostedBy(outcome)
           /\ run' = IF outcome.type = "result" THEN outcome.run
                     ELSE [stage |-> "error", message |-> outcome.message]
           /\ filtered' = IF outcome.type = "result" THEN outcome.filteredDefects
                          ELSE <<>>
    /\ UNCHANGED <<def, data, includeOutliers, error, analysis, dirty, lastValid,
                   steps, fileError, summaryDirty, trigger>>

NextMessage == OnMessage

SpecMessage == InitMessage /\ [][NextMessage]_vars

-----------------------------------------------------------------------------
(* SpecFilter: the two outlier filters as functions of the defects         *)

\* the defect counts of the batches whose order and values are drawn
FilterValues == {0, 1, 2, 9}

\* every sequence of 1..MaxFilterLen batches of 10 items, in any order
FilterInputs ==
    UNION { [1..n -> {Record(10, v) : v \in FilterValues}] : n \in 1..MaxFilterLen }

\* batches whose total and defects read Infinity pass the row checks of the
\* worker and of the earlier Dashboard; up to three batches, some of them such
InfiniteInputs ==
    UNION { [1..n -> {Record(10, 1), Record(10, 9), Record(Infinity, Infinity)}] : n \in 1..3 }

\* twice the multipliers of the IQR: 0, 0.5, 1.5 (the default) and 3
ThresholdsTwice == {0, 1, 3, 6}

InitFilter ==
    /\ def \in {1, 3, 5}
    /\ data \in IF def = 1 THEN FilterInputs ELSE FilterInputs \cup InfiniteInputs
    /\ includeOutliers = FALSE
    /\ error = "null"
    /\ analysis = InitialAnalysis
    /\ dirty = FALSE
    /\ run \in IF def = 5
               THEN {[stage |-> "defects", thresholdTwice |-> t] : t \in ThresholdsTwice}
               ELSE {[stage |-> "defects"]}
    /\ filtered = <<>>
    /\ lastValid = InitialAnalysis
    /\ steps = 0
    /\ fileError = "null"
    /\ summaryDirty = FALSE
    /\ trigger = "none"
    /\ posted = <<>>

\* Dashboard: filterOutliers(defects, 'Binomial', { n: avgN, p: binomialP })
DashboardFilter ==
    /\ def = 1
    /\ run.stage = "defects"
    /\ LET defects == DefectsOf(data)
           stats == calculateBasicStatistics(defects, TotalItems(data))
       IN  /\ filtered' = filterOutliers(defects, stats)
           /\ run' = [stage |-> "filtered",
                      stats |-> stats,
                      upperBoundTwice |-> 2 * calculateOutlierBound(stats)]
    /\ UNCHANGED <<def, data, includeOutliers, error, analysis, dirty, lastValid,
                   steps, fileError, summaryDirty, trigger, posted>>

\* worker.js: filterOutliers(defects)
WorkerFilter ==
    /\ def = 3
    /\ run.stage = "defects"
    /\ LET defects == DefectsOf(data)
       IN  /\ filtered' = filterOutliersIQR(defects)
           /\ run' = [stage |-> "filtered",
                      upperBoundTwice |-> UpperBoundIQRTwice(defects)]
    /\ UNCHANGED <<def, data, includeOutliers, error, analysis, dirty, lastValid,
                   steps, fileError, summaryDirty, trigger, posted>>

\* the earlier Dashboard: filterOutliers(defects, outlierThreshold)
ThresholdFilter ==
    /\ def = 5
    /\ run.stage = "defects"
    /\ LET defects == DefectsOf(data)
       IN  /\ filtered' = filterOutliersThreshold(defects, run.thresholdTwice)
           /\ run' = [stage |-> "filtered",
                      thresholdTwice |-> run.thresholdTwice,
                      upperBoundTwice |->
                          UpperBoundThresholdTwice(defects, run.thresholdTwice)]
    /\ UNCHANGED <<def, data, includeOutliers, error, analysis, dirty, lastValid,
                   steps, fileError, summaryDirty, trigger, posted>>

NextFilter ==
    \/ DashboardFilter
    \/ WorkerFilter
    \/ ThresholdFilter

SpecFilter == InitFilter /\ [][NextFilter]_vars

-----------------------------------------------------------------------------
(* SpecAutoSave: the AutoSave component and its interval                   *)

\* intervalMs = 60000, the default of the component
DEFAULT_INTERVAL_MS == 60000

\* the record sets and analyses the component receives as props
SavedData == {<<>>, <<Record(10, 1)>>, <<Record(10, 1), Record(10, 0)>>}
SavedAnalyses == {InitialAnalysis, [InitialAnalysis EXCEPT !.distribution = "Poisson"]}

\* lastSaveRef.current before the first save
NothingSaved == [timestamp |-> -1]

\* JSON.stringify(savePayload): the text determines data, analysis and
\* timestamp (version is always '1.0')
SavePayload(d, a, now) == [data |-> d, analysis |-> a, timestamp |-> now]

\* saveData with the data and analysis of the render that created it, at the
\* time now: the state of lastSaveRef, of localStorage and the number of
\* setItem calls after it
saveData(d, a, now, r) ==
    IF Len(d) = 0 THEN [r EXCEPT !.now = now]
    ELSE IF r.lastSaveRef = SavePayload(d, a, now) THEN [r EXCEPT !.now = now]
    ELSE [r EXCEPT !.now = now,
                   !.lastSaveRef = SavePayload(d, a, now),
                   !.stored = SavePayload(d, a, now),
                   !.writes = r.writes + 1]

InitAutoSave ==
    /\ def = 4
    /\ data \in SavedData
    /\ includeOutliers = FALSE
    /\ error = "null"
    /\ analysis = InitialAnalysis
    /\ dirty = FALSE
    /\ filtered = <<>>
    /\ lastValid = InitialAnalysis
    /\ steps = 0
    /\ fileError = "null"
    /\ summaryDirty = FALSE
    /\ trigger = "none"
    /\ posted = <<>>
    \* the effect of the mount: the immediate save, then setInterval
    /\ run = saveData(data, analysis, 0,
                      [stage |-> "autosave", now |-> 0, lastSaveRef |-> NothingSaved,
                       stored |-> NothingSaved, writes |-> 0])

\* the interval fires intervalMs after the effect or the previous tick
AutoSaveTick ==
    /\ def = 4
    /\ steps < MaxSaves
    /\ steps' = steps + 1
    /\ run' = saveData(data, analysis, run.now + DEFAULT_INTERVAL_MS, run)
    /\ UNCHANGED <<def, data, includeOutliers, error, analysis, dirty, filtered,
                   lastValid, fileError, summaryDirty, trigger, posted>>

\* data or analysis change: the effect clears the interval, saves at once if
\* there is data, and sets the interval again
AutoSaveEffect(d, a, elapsed) ==
    /\ def = 4
    /\ steps < MaxSaves
    /\ steps' = steps + 1
    /\ <<d, a>> # <<data, analysis>>
    /\ data' = d
    /\ analysis' = a
    /\ run' = saveData(d, a, run.now + elapsed, run)
    /\ UNCHANGED <<def, includeOutliers, error, dirty, filtered, lastValid,
                   fileError, summaryDirty, trigger, posted>>

NextAutoSave ==
    \/ AutoSaveTick
    \/ \E d \in SavedData, a \in SavedAnalyses, elapsed \in {0, 1, 1000} :
           AutoSaveEffect(d, a, elapsed)

SpecAutoSave == InitAutoSave /\ [][NextAutoSave]_vars

-----------------------------------------------------------------------------
(* SpecHistory: the testHistory list in localStorage.  run holds the clock, *)
(* the stored list, the serial number of the next entry, the entry the last *)
(* write added and the number of entries its splice removed.                *)

\* if (updatedHistory.length > 100)
HISTORY_LIMIT == 100

\* entry.source of the entries the analysis effect writes
ANALYSIS_COMPLETED == "analysis_completed"

\* the dedupe window of the analysis effect, in milliseconds
DEDUPE_WINDOW_MS == 5000

\* testEntry: id (Date.now() + Math.random(), here a serial number), the
\* timestamp, the source and dataStats.recordCount
HistoryEntry(id, timestamp, source, recordCount) ==
    [id |-> id, timestamp |-> timestamp, source |-> source,
     recordCount |-> recordCount]

\* the filter of the analysis effect: an entry of a completed analysis of as
\* many records written within the last 5 seconds is dropped
KeptByDedupe(entry, recordCount, now) ==
    \/ entry.source # ANALYSIS_COMPLETED
    \/ entry.recordCount # recordCount
    \/ (IF entry.timestamp > now THEN entry.timestamp - now
                                 ELSE now - entry.timestamp) > DEDUPE_WINDOW_MS

\* mutant: splice(HISTORY_LIMIT) cuts the list after its first 100 entries
HistoryCapHead(updatedHistory) ==
    IF Len(updatedHistory) > HISTORY_LIMIT
    THEN SubSeq(updatedHistory, 1, HISTORY_LIMIT)
    ELSE updatedHistory

\* updatedHistory.splice(0, updatedHistory.length - 100) when the list is
\* longer than 100
HistoryCap(updatedHistory) ==
    IF Len(updatedHistory) > HISTORY_LIMIT
    THEN SubSeq(updatedHistory, Len(updatedHistory) - HISTORY_LIMIT + 1,
                Len(updatedHistory))
    ELSE updatedHistory

\* a list stored by earlier sessions: n entries, one a minute, of file
\* uploads and completed analyses in turn, the last one written at `last`
StoredHistory(n, last) ==
    [k \in 1..n |->
        HistoryEntry(k, IF k = n THEN last ELSE 0 - 60000 * (n - k),
                     IF k % 2 = 0 THEN ANALYSIS_COMPLETED ELSE "file_upload",
                     1 + (k % 2))]

\* the record counts of the data analysed or loaded
HistoryRecordCounts == {1, 2}

InitHistory ==
    /\ def \in {1, 2, 6}
    /\ data = <<>>
    /\ includeOutliers = FALSE
    /\ error = "null"
    /\ analysis = InitialAnalysis
    /\ dirty = FALSE
    /\ filtered = <<>>
    /\ lastValid = InitialAnalysis
    /\ steps = 0
    /\ fileError = "null"
    /\ summaryDirty = FALSE
    /\ trigger = "none"
    /\ posted = <<>>
    /\ \E n \in {0, HISTORY_LIMIT - 2, HISTORY_LIMIT}, last \in {0 - 60000, 0} :
           run = [stage |-> "history", now |-> 0,
                  testHistory |-> StoredHistory(n, last),
                  nextId |-> n + 1, added |-> 0, spliced |-> 0]

\* the history part of the analysis effect of the Dashboard, run `elapsed`
\* milliseconds after the previous step for data of recordCount records
SaveAnalysisToHistory(recordCount, elapsed) ==
    /\ def \in {1, 2}
    /\ run.stage = "history"
    /\ steps < MaxHistorySteps
    /\ steps' = steps + 1
    /\ LET now == run.now + elapsed
           testEntry == HistoryEntry(run.nextId, now, ANALYSIS_COMPLETED, recordCount)
           Kept(entry) == KeptByDedupe(entry, recordCount, now)
           filteredHistory == SelectSeq(run.testHistory, Kept)
           updatedHistory == Append(filteredHistory, testEntry)
       IN  run' = [run EXCEPT !.now = now,
                              !.testHistory = HistoryCap(updatedHistory),
                              !.nextId = run.nextId + 1,
                              !.added = testEntry.id,
                              !.spliced = Len(updatedHistory)
                                          - Len(HistoryCap(updatedHistory))]
    /\ UNCHANGED <<def, data, includeOutliers, error, analysis, dirty, filtered,
                   lastValid, fileError, summaryDirty, trigger, posted>>

\* addToTestHistory(newData, fileName) of the earlier FileUploader, called for a
\* file upload (fileName given) or a project load
addToTestHistory(recordCount, source, elapsed) ==
    /\ def = 6
    /\ run.stage = "history"
    /\ steps < MaxHistorySteps
    /\ steps' = steps + 1
    /\ LET now == run.now + elapsed
           testEntry == HistoryEntry(run.nextId, now, source, recordCount)
           updatedHistory == Append(run.testHistory, testEntry)
       IN  run' = [run EXCEPT !.now = now,
                              !.testHistory = HistoryCap(updatedHistory),
                              !.nextId = run.nextId + 1,
                              !.added = testEntry.id,
                              !.spliced = Len(updatedHistory)
                                          - Len(HistoryCap(updatedHistory))]
    /\ UNCHANGED <<def, data, includeOutliers, error, analysis, dirty, filtered,
                   lastValid, fileError, summaryDirty, trigger, posted>>

\* the button of the ResultSummary that clears the history:
\* localStorage.removeItem('testHistory')
ClearHistory ==
    /\ def \in {1, 2}
    /\ run.stage = "history"
    /\ steps < MaxHistorySteps
    /\ steps' = steps + 1
    /\ Len(run.testHistory) > 0
    /\ run' = [run EXCEPT !.testHistory = <<>>, !.added = 0, !.spliced = 0]
    /\ UNCHANGED <<def, data, includeOutliers, error, analysis, dirty, filtered,
                   lastValid, fileError, summaryDirty, trigger, posted>>

NextHistory ==
    \/ \E recordCount \in HistoryRecordCounts, elapsed \in {1000, 6000} :
           SaveAnalysisToHistory(recordCount, elapsed)
    \/ \E recordCount \in HistoryRecordCounts,
          source \in {"file_upload", "project_load"}, elapsed \in {1000, 6000} :
           addToTestHistory(recordCount, source, elapsed)
    \/ ClearHistory

SpecHistory == InitHistory /\ [][NextHistory]_vars

Done == run.stage = "done"

-----------------------------------------------------------------------------
(* Claims                                                                  *)

\* C2: the bins returned by createOptimalBins are in ascending order with
\* start <= end, the first starts at 0, each next one starts at the previous
\* end + 1, the last ends at maxDefects, and there are as many bin labels as
\* observed bins.
C2_BinPartition ==
    Done =>
        /\ Len(run.bins) >= 1
        /\ run.bins[1][1] = 0
        /\ \A k \in 1..Len(run.bins) : run.bins[k][1] <= run.bins[k][2]
        /\ \A k \in 1..(Len(run.bins) - 1) : run.bins[k + 1][1] = run.bins[k][2] + 1
        /\ run.bins[Len(run.bins)][2] = Len(run.empirical) - 1
        /\ Len(run.binLabels) = Len(run.binnedEmpirical)

\* C2 witness: a forced re-split into several bins that merge support values
C2_Witness ==
    /\ Done
    /\ run.greedyCount < MIN_BINS
    /\ Len(run.bins) >= 2
    /\ run.bins[1][1] < run.bins[1][2]

BinWidth(bin) == bin[2] - bin[1] + 1

\* C3: whenever the greedy pass yields fewer than 3 bins, the fallback returns
\* at least 3 bins of equal width.
C3_ForcedAtLeastThreeEqual ==
    (Done /\ run.greedyCount < MIN_BINS) =>
        /\ Len(run.bins) >= MIN_BINS
        /\ \A j, k \in 1..Len(run.bins) : BinWidth(run.bins[j]) = BinWidth(run.bins[k])

Names == {"Poisson", "Binomial", "NegativeBinomial"}

\* the number of bins the loop of computeChiSquare counted as valid
Counted(name) == Cardinality(run.chi[name].counted)

\* name is among the accepted entries of the run
AcceptedName(name) ==
    \E k \in 1..Len(run.accepted) : run.accepted[k].name = name

\* C4 (as claimed): a distribution with validBins < numParams + 2 is reported
\* with chiSquare = Infinity and degreesOfFreedom = 0 and is never accepted.
C4_InsufficientBinsFatal ==
    Done =>
        \A name \in Names :
            Counted(name) < NumParams(name) + 2 =>
                /\ run.chi[name].chi2 = Infinity
                /\ run.chi[name].df = 0
                /\ ~AcceptedName(name)

\* C5 (as claimed): degreesOfFreedom produced by computeChiSquare is >= 1 for
\* every distribution and every input.
C5_DfFloorAlways ==
    Done => \A name \in Names : run.chi[name].df >= 1

\* C5 (amended): a distribution with at least numParams + 2 valid bins gets
\* degreesOfFreedom = validBins - 1 - numParams >= 1; with fewer valid bins
\* the first revision returns 0 and the second revision 1 at least.
C5_DfFloor ==
    Done =>
        \A name \in Names :
            /\ Counted(name) >= NumParams(name) + 2 =>
                   /\ run.chi[name].df = Counted(name) - 1 - NumParams(name)
                   /\ run.chi[name].df >= 1
            /\ (Counted(name) < NumParams(name) + 2 /\ def = 1) =>
                   run.chi[name].df = 0
            /\ def = 2 => run.chi[name].df >= 1

\* C5 witness: in one run of the first revision, one distribution has just
\* enough valid bins and another one too few
C5_Witness ==
    /\ Done
    /\ def = 1
    /\ Counted("Poisson") = NumParams("Poisson") + 2
    /\ run.chi["Poisson"].df = 1
    /\ Counted("Binomial") < NumParams("Binomial") + 2
    /\ run.chi["Binomial"].df = 0

\* r is one of the entries of the list
InList(r, list) == \E k \in 1..Len(list) : list[k] = r

\* C7 (as claimed): when at least one distribution is accepted, the selected
\* one is accepted and has the highest p-value among the accepted ones, and
\* no accepted distribution with the same p-value has a lower chi-square.
C7_BestAmongAccepted ==
    (Done /\ Len(run.accepted) > 0) =>
        /\ InList(run.best, run.accepted)
        /\ \A k \in 1..Len(run.accepted) :
               /\ run.accepted[k].pValue <= run.best.pValue
               /\ run.accepted[k].pValue = run.best.pValue =>
                      run.best.chi2 <= run.accepted[k].chi2

\* C8 (as claimed): when no distribution is accepted, the selected one has
\* the highest p-value among the evaluated ones, whatever their chi-square.
C8_FallbackHighestP ==
    (Done /\ Len(run.accepted) = 0 /\ Len(run.results) > 0) =>
        /\ InList(run.best, run.results)
        /\ \A k \in 1..Len(run.results) :
               run.results[k].pValue <= run.best.pValue

\* C9 (as claimed): when all three distributions have too few valid bins, the
\* run completes without an error and selects one of the three names.
C9_SelectorTotal ==
    (Done /\ \A name \in Names : Counted(name) < NumParams(name) + 2) =>
        run.best.name \in Names

\* C6 (as claimed): a bin adds its contribution to the statistic and counts
\* toward validBins if and only if its expected frequency is at least 5,
\* whatever its observed count; in particular with observed count 0.
C6_ValidBinRule ==
    Done =>
        \A name \in Names :
            /\ run.chi[name].counted =
                   {i \in 1..Len(run.binnedEmpirical) :
                       run.binned[name][i] >= MIN_EXPECTED_FREQ}
            /\ run.chi[name].chi2 # Infinity =>
                   run.chi[name].chi2 =
                       ChiSum(run.binnedEmpirical, run.binned[name],
                              {i \in 1..Len(run.binnedEmpirical) :
                                  run.binned[name][i] >= MIN_EXPECTED_FREQ}, 1)

\* C1: after every analysis run that gets to the binning, the binned observed
\* frequencies sum to the number of defect values left after the outlier
\* filter, on the greedy path and on the forced re-split path alike.
C1_FrequencyConservation ==
    Done => SumSeq(run.binnedEmpirical) = Len(filtered)

\* C1 witness: a run on the greedy path from which the filter removed a value
C1_Witness ==
    /\ Done
    /\ ~includeOutliers
    /\ run.greedyCount >= MIN_BINS
    /\ Len(filtered) < Len(data)
    /\ Len(filtered) >= 1

\* C10 (as claimed): once an analysis run has failed, the analysis in the
\* state is still the result of the last run that succeeded.
C10_NoPartialUpdate ==
    (~dirty /\ error # "null") => analysis = lastValid

\* C11 (as claimed): once the analysis has been invoked with zero records,
\* the caller holds an error description.
C11_EmptyIsError ==
    (~dirty /\ Len(data) = 0) => error # "null"

\* C12 (as claimed): the acceptance stored in the analysis, whichever place
\* decided it (analyzeDistributions of the Dashboard or isHypothesisAccepted
\* of the ResultSummary), is that of the rule pValue >= significanceLevel:
\* the hypothesis is accepted exactly when some distribution has a p-value
\* that is at least the significance level stored with it.  Stated for
\* the states in which no effect is pending.
C12_AcceptanceRule ==
    (~dirty /\ ~summaryDirty) =>
        analysis.hypothesisAccepted =
            (\E name \in Names :
                analysis.pValues[name] >= analysis.significanceLevel)

\* the analysis that a run on the records d, the significance level and the
\* outlier switch stores when it starts from the initial analysis
FreshAnalysis(d, significanceLevel, withOutliers) ==
    FinalAnalysis([InitialAnalysis EXCEPT !.significanceLevel = significanceLevel],
                  Fitting(d, Filtering(d, withOutliers).filteredDefects,
                          significanceLevel))

\* C13 (as claimed): the analysis object a successful run stores is a
\* function of the records, the significance level and includeOutliers only:
\* whatever the analysis in the state before the run, the run stores the
\* object it stores when started from the initial analysis.
C13_FreshResult ==
    [][(dirty /\ Len(data) > 0 /\ Filtering(data, includeOutliers).message = "ok")
           => analysis' = FreshAnalysis(data, analysis.significanceLevel,
                                        includeOutliers)]_vars

\* the theoretical frequencies of the last run had its statistics been
\* estimated from the sample that was left after the outlier filter
PostFilterFrequencies ==
    calculateTheoreticalFrequencies(
        filtered, calculateBasicStatistics(filtered, TotalItems(data)))

\* C14 (as claimed): whenever the outlier filter removed a value, the
\* statistics the expected frequencies are built from (mean, variance, the
\* negative binomial r and p) are those of the filtered sample, so the
\* Poisson and negative binomial frequencies of the run are the ones that
\* the filtered sample's statistics give.
C14_EstimationFollowsFiltering ==
    (Done /\ ~dirty /\ Len(filtered) < Len(data)) =>
        /\ run.poisson = PostFilterFrequencies.poissonFrequencies
        /\ run.negBinomial = PostFilterFrequencies.negBinomialFrequencies

\* C15 (as claimed): after any sequence of DataTable operations on valid
\* data, every record satisfies 0 <= defects <= total.
C15_RecordInvariant ==
    \A i \in 1..Len(data) :
        /\ 0 <= data[i].defects
        /\ data[i].defects <= data[i].total

\* the request has been handled
Handled == def = 3 /\ run.stage \in {"done", "error"} /\ Len(posted) > 0

\* the type of the last message posted
LastPosted == posted[Len(posted)].type

\* C16 (as claimed): a valid record set of 1 to 29 records is analysed and
\* gets a result; it is not rejected with an error for its size.
C16_SmallSamplesAnalysed ==
    (Handled /\ WorkerRowsValid(data) /\ Len(data) >= 1 /\ Len(data) < MIN_RECORDS)
        => LastPosted = "result"

\* a step of handleSignificanceChange with a value in [0.001, 0.20]
SignificanceStep ==
    \E value \in SignificanceValues :
        value >= 1 /\ value <= 200 /\ HandleSignificanceChange(value)

\* the properties of the analysis other than the three the handler names
KeptProperties ==
    DOMAIN analysis \ {"significanceLevel", "criticalValues", "hypothesisAccepted"}

\* the run of the analysis effect that the changed significanceLevel schedules
SignificanceRerun == dirty /\ trigger = "significance" /\ AnalysisEffect

\* C17: handleSignificanceChange with a value in the range changes only
\* significanceLevel, criticalValues and hypothesisAccepted of the analysis,
\* and the run of the analysis effect that the change schedules leaves the
\* chi-square statistic of each distribution as it was.
C17_SignificanceFrame ==
    [][/\ SignificanceStep =>
              \A property \in KeptProperties : analysis'[property] = analysis[property]
       /\ SignificanceRerun =>
              \A name \in Names :
                  analysis'.chiSquareValues[name] = analysis.chiSquareValues[name]]_vars

\* a finished run for a sample, scheduled by a changed significance level
C17_Witness ==
    /\ ~dirty
    /\ Done
    /\ error = "null"
    /\ Len(data) > 0
    /\ analysis.significanceLevel # InitialAnalysis.significanceLevel
    /\ analysis.chiSquareValues["Poisson"] > 0

\* the positions of the 'result' and 'error' messages among those posted
TerminalMessages ==
    {i \in 1..Len(posted) : posted[i].type \in {"result", "error"}}

\* the analysis of a 'result' message has every property, a distribution of
\* the three, and one frequency per bin label in each binned vector
CompleteAnalysis(a) ==
    /\ DOMAIN a = {"distribution", "empiricalFrequencies", "theoreticalFrequencies", "chiSquareValues", "pValues", "degreesOfFreedom", "significanceLevel", "hypothesisAccepted", "binLabels"}
    /\ a.distribution \in Names
    /\ a.degreesOfFreedom >= 1
    /\ Len(a.empiricalFrequencies) = Len(a.binLabels)
    /\ \A name \in Names :
           /\ Len(a.theoreticalFrequencies[name]) = Len(a.binLabels)
           /\ a.chiSquareValues[name] >= 0
           /\ a.pValues[name] \in 0..1000

RECURSIVE IsSubsequence(_, _)
IsSubsequence(s, t) ==
    IF s = <<>> THEN TRUE
    ELSE IF t = <<>> THEN FALSE
    ELSE IF Head(s) = Head(t) THEN IsSubsequence(Tail(s), Tail(t))
    ELSE IsSubsequence(s, Tail(t))

\* the number of elements of s equal to v
Occurrences(s, v) == Cardinality({i \in 1..Len(s) : s[i] = v})

\* C19: the filtered defects are a subsequence of the defects in their
\* order; a value that is <= the upper bound occurs in them as often as in
\* the input, and a value above the bound does not occur.
C19_FilterOnlyRemoves ==
    run.stage = "filtered" =>
        /\ IsSubsequence(filtered, DefectsOf(data))
        /\ \A v \in FilterValues :
               Occurrences(filtered, v) =
                   IF 2 * v <= run.upperBoundTwice
                   THEN Occurrences(DefectsOf(data), v)
                   ELSE 0

\* a filter has removed a batch from defects that were not sorted and has
\* kept one whose defects equal the bound
C19_Witness ==
    /\ run.stage = "filtered"
    /\ Len(filtered) < Len(data)
    /\ \E i \in 1..Len(filtered) : 2 * filtered[i] = run.upperBoundTwice
    /\ \E i \in 1..(Len(data) - 1) : data[i].defects > data[i + 1].defects

\* C20: the bins the worker's createOptimalBins returns start at 0, follow
\* one another without gap or overlap and end at maxDefects, and the binned
\* observed counts add up to the number of filtered defects.
C20_WorkerBinCoverage ==
    (def = 3 /\ Done /\ Len(posted) > 0) =>
        /\ Len(run.bins) >= 1
        /\ run.bins[1][1] = 0
        /\ \A k \in 1..(Len(run.bins) - 1) : run.bins[k + 1][1] = run.bins[k][2] + 1
        /\ run.bins[Len(run.bins)][2] = MaxOf(filtered)
        /\ SumSeq(run.binnedEmpirical) = Len(filtered)

\* the expected frequencies of the run, one vector per distribution
ExpectedOf(name) ==
    IF name = "Poisson" THEN run.poisson
    ELSE IF name = "Binomial" THEN run.binomial
    ELSE run.negBinomial

\* the expected frequency of the support values start..end, summed
RECURSIVE SupportSum(_, _, _)
SupportSum(name, start, end) ==
    IF end < start THEN 0
    ELSE SupportSum(name, start, end - 1) + Cell(ExpectedOf(name), end)

\* the run took the greedy path: the greedy pass produced MIN_BINS bins or more
GreedyPath == Done /\ def \in {1, 2} /\ run.greedyCount >= MIN_BINS

\* C21: on the greedy path every bin but the last has a cumulative expected
\* frequency of at least MIN_EXPECTED_FREQ for each of the three
\* distributions, and without its last support value some distribution's
\* sum is below MIN_EXPECTED_FREQ.
C21_GreedyClosure ==
    GreedyPath =>
        \A k \in 1..(Len(run.bins) - 1) :
            /\ \A name \in Names :
                   SupportSum(name, run.bins[k][1], run.bins[k][2]) >= MIN_EXPECTED_FREQ
            /\ \E name \in Names :
                   SupportSum(name, run.bins[k][1], run.bins[k][2] - 1) < MIN_EXPECTED_FREQ

\* the greedy path with a bin that merges support values before the last
\* bin, which the end of the support closes below the minimum
C21_Witness ==
    /\ GreedyPath
    /\ \E k \in 1..(Len(run.bins) - 1) : run.bins[k][1] < run.bins[k][2]
    /\ \E name \in Names : run.binned[name][Len(run.bins)] < MIN_EXPECTED_FREQ

\* C22: once an analysis of the Dashboard is stored and the ResultSummary
\* has computed its critical values, the degrees of freedom it used for each
\* distribution the evaluator could evaluate are those the evaluator
\* computed from the valid bins of that distribution.
C22_DegreesOfFreedomAgree ==
    (def = 1 /\ Done /\ ~dirty /\ ~summaryDirty /\ error = "null") =>
        \A name \in Names :
            run.chi[name].df >= 1 => getDegreesOfFreedom(name) = run.chi[name].df

\* n, the sum, the sum of squares and max(n - 1, 1) of the defects drawn
SampleOf(d) ==
    [n |-> Len(d), sum |-> SumSeq(DefectsOf(d)), q |-> SumSquares(DefectsOf(d)), m |-> Max(Len(d) - 1, 1)]

\* n m times the variance, and n m times the mean
ScaledVariance(s) == s.n * s.q - s.sum * s.sum
ScaledMean(s) == s.sum * s.m

\* C23: for a sample of non-negative counts calculateBasicStatistics returns
\* negBinomialR > 0 and 0 < negBinomialP < 1.  It returns the method of
\* moments values exactly when variance > 1.1 mean, and then
\* r = mean^2 / (variance - mean) is positive and p = mean / variance lies
\* strictly between 0 and 1; otherwise r is the mean (1 if the mean is 0)
\* and p is 0.5.  r is in hundredths and p in thousandths, rounded down.
C23_NegBinomialParameters ==
    (def = 1 /\ run.stage = "filtered") =>
        LET s == SampleOf(data)
            r == run.stats.negBinomialR
            p == run.stats.negBinomialP
            overdispersed == 10 * ScaledVariance(s) > 11 * ScaledMean(s)
            excess == s.n * (ScaledVariance(s) - ScaledMean(s))
        IN  /\ r > 0
            /\ p > 0 /\ p < 1000
            /\ (run.stats.negBinomialMethod = "moments") = overdispersed
            /\ overdispersed =>
                   /\ ScaledMean(s) > 0 /\ ScaledMean(s) < ScaledVariance(s)
                   /\ excess > 0
                   /\ r * excess <= 100 * s.sum * s.sum * s.m
                   /\ 100 * s.sum * s.sum * s.m < (r + 1) * excess
                   /\ p * ScaledVariance(s) <= 1000 * ScaledMean(s)
                   /\ 1000 * ScaledMean(s) < (p + 1) * ScaledVariance(s)
            /\ ~overdispersed =>
                   /\ p = 500
                   /\ IF s.sum = 0 THEN r = 100
                      ELSE r * s.n <= 100 * s.sum /\ 100 * s.sum < (r + 1) * s.n

\* the statistics of an overdispersed sample
C23_Witness ==
    /\ def = 1
    /\ run.stage = "filtered"
    /\ run.stats.negBinomialMethod = "moments"
    /\ run.stats.negBinomialP < 500

\* the dependencies of the pipeline that are its inputs
InputTriggers == {"mount", "data", "outliers", "significance"}

\* a step that clears the error while the records, the significance level
\* and includeOutliers stay as they are: the error notification is dismissed
ErrorDismissed ==
    /\ steps' # steps
    /\ error # "null"
    /\ error' = "null"
    /\ UNCHANGED <<data, includeOutliers>>
    /\ analysis'.significanceLevel = analysis.significanceLevel

\* C24: dismissing the error notification does not schedule a run of the
\* pipeline, and an error is only ever set by a run that a change of the
\* records, of the significance level or of includeOutliers scheduled.
C24_NoRerunOnDismissal ==
    [][/\ ErrorDismissed => ~dirty'
       /\ (error = "null" /\ error' # "null") => trigger \in InputTriggers]_vars

\* C25: the label of a bin [start, end] is "start" when start = end and
\* "start-end" otherwise.
C25_BinLabels ==
    (Done /\ def \in {1, 2}) =>
        /\ Len(run.binLabels) = Len(run.bins)
        /\ \A k \in 1..Len(run.bins) :
               run.binLabels[k] =
                   IF run.bins[k][1] = run.bins[k][2]
                   THEN ToString(run.bins[k][1])
                   ELSE ToString(run.bins[k][1]) \o "-" \o ToString(run.bins[k][2])

\* the data and analysis of the render are those of the last save
SavedIsCurrent ==
    /\ run.lastSaveRef # NothingSaved
    /\ run.lastSaveRef.data = data
    /\ run.lastSaveRef.analysis = analysis

\* C26: a tick of the interval with the data and analysis that were last
\* saved writes nothing to localStorage, and saveData writes nothing while
\* data is empty.
C26_SkipUnchanged ==
    [][(def = 4 /\ UNCHANGED <<data, analysis>>) =>
           /\ SavedIsCurrent => run'.writes = run.writes
           /\ Len(data) = 0 => run'.writes = run.writes]_vars

\* the filtered defects come from an IQR filter (worker.js or the earlier
\* Dashboard)
IQRFiltered == def \in {3, 5} /\ run.stage = "filtered"

\* every defect count of the sample is a finite number
FiniteDefects == \A i \in 1..Len(data) : IsFinite(data[i].defects)

\* the smallest of the defects
MinOf(s) == CHOOSE x \in {s[i] : i \in 1..Len(s)} : \A i \in 1..Len(s) : x <= s[i]

BestAccepted == run.best.name \in Names /\ run.best.isAccepted

\* hypothesisAccepted as the analysis stores it: accepted.length > 0
StoredFlag ==
    IF def = 1 THEN FinalAnalysis(analysis, run).hypothesisAccepted
    ELSE Len(run.accepted) > 0

\* C28: after analyzeDistributions of either Dashboard definition, when at
\* least one evaluated distribution is accepted the selected best one is
\* accepted, so the stored hypothesisAccepted flag is true exactly when the
\* selected distribution is accepted.
C28_FlagMatchesSelection ==
    (Done /\ def \in {1, 2}) =>
        /\ Len(run.accepted) > 0 => BestAccepted
        /\ StoredFlag <=> BestAccepted

\* some but not all evaluated distributions are accepted, and the reduce of the
\* first definition moved away from the first result to an accepted one
C28_Witness ==
    /\ Done
    /\ def = 1
    /\ Len(run.accepted) > 0
    /\ Len(run.accepted) < Len(run.results)
    /\ run.best.name # run.results[1].name
    /\ BestAccepted
    /\ StoredFlag

\* the acceptance of the claim for the level v: some distribution has a
\* chi-square below the critical value computed at v and a p-value of at
\* least v
AcceptedAtLevel(a, v) ==
    \E name \in Names :
        /\ IsFinite(a.chiSquareValues[name])
        /\ IsFinite(calculateCriticalValues(v)[name])
        /\ IsFinite(a.pValues[name])
        /\ a.chiSquareValues[name] < calculateCriticalValues(v)[name]
        /\ a.pValues[name] >= v

\* C29 (as claimed): the analysis that handleSignificanceChange(v) stores for
\* a level v of the range [0.001, 0.20] has hypothesisAccepted decided at the
\* new level v, in the critical value and in the comparison of the p-value.
C29_NewLevelDecides ==
    [][\A v \in SignificanceValues :
           (v >= 1 /\ v <= 200 /\ HandleSignificanceChange(v))
               => analysis'.hypothesisAccepted = AcceptedAtLevel(analysis, v)]_vars

\* the entries of a history list
EntriesOf(history) == {history[k] : k \in 1..Len(history)}

\* a step that writes the history
HistoryWritten == run.stage = "history" /\ run'.nextId > run.nextId

\* C30: every write of testHistory leaves at most 100 entries, the entry it
\* added is the last one of the list, and an entry it removed was either a
\* completed analysis of as many records written within the last 5 seconds
\* or is older than every entry that was there before and is kept.
C30_HistoryBounded ==
    [][HistoryWritten =>
           LET old == run.testHistory
               new == run'.testHistory
               added == new[Len(new)]
           IN  /\ Len(new) >= 1
               /\ Len(new) <= HISTORY_LIMIT
               /\ added.id = run'.added
               /\ added.id = run.nextId
               /\ \A e \in EntriesOf(old) \ EntriesOf(new) :
                      \/ ~KeptByDedupe(e, added.recordCount, run'.now)
                      \/ \A k \in EntriesOf(old) \cap EntriesOf(new) :
                             k.id > e.id]_vars

\* a write to a full list: the splice removed the oldest entry and the list
\* has 100 entries, the last of them the one just added
C30_Witness ==
    /\ run.stage = "history"
    /\ run.spliced > 0
    /\ Len(run.testHistory) = HISTORY_LIMIT
    /\ run.testHistory[HISTORY_LIMIT].id = run.added
    /\ steps >= 2

====
